---- MODULE Spec2Model ----
(***************************************************************************)
(* A model of klein-sniper: the lifecycle builder (analyzer/lifecycle.rs), *)
(* the deal classifier (analyzer/price_analysis.rs) and the processing     *)
(* cycle of main.rs over the SQLite storage and the Telegram notifier.     *)
(*                                                                         *)
(* Numbers.  Prices are f64 in the source.  Here a price is an integer     *)
(* number of currency units; a computed mean is kept as the exact fraction *)
(* num/den, with den = 0 standing for the NaN that 0.0/0.0 yields, and     *)
(* every f64 comparison is translated by cross-multiplication (a           *)
(* comparison with NaN is false, as in IEEE 754).  Timestamps are integer  *)
(* seconds.                                                                *)
(* The market indicators (analyzer/market_indicators.rs) are modelled as   *)
(* single calls under SpecIndicators; there a time is a number of ticks.   *)
(***************************************************************************)
EXTENDS Integers, Sequences, FiniteSets, TLC

VARIABLES
    offers,      \* the batch handed to the function under analysis
    offers2,     \* lifecycle: the same observations in another input order
    grouped,     \* lifecycle.rs:8   HashMap<String, OfferLifecycle> of the run on offers
    grouped2,    \* the same map of the run on offers2
    lc_i,        \* lifecycle.rs:10  number of offers the for loop has consumed
    lifecycles,  \* lifecycle.rs:34  the returned Vec (<<>> until the function returns)
    cfg,         \* config.rs:5     the ModelConfig handed to find_deals
    stats,       \* price_analysis.rs:47  the ModelStats calculate_stats returned
    good_offers, \* price_analysis.rs:60  the Vec find_deals returned
    phase,       \* position of the function under analysis, or of main's loop
    site,        \* the listings the marketplace shows during the current cycle
    pc,          \* per process_model task: its position
    loop_i,      \* per task: index of the for loop it is in (main.rs:183, 240)
    cheapest,    \* per task: telegram/mod.rs:117 the cheapest stored offer
    db_offers,   \* sqlite.rs:17  table offers, by primary key id
    db_notified, \* sqlite.rs:29  table notified: offer_id -> notified_at
    db_stats,    \* sqlite.rs:34  table model_stats, by primary key model
    events,      \* history: the rows written, the notifications sent and the
                 \* requests that failed
    cycle,       \* number of the current pass of main's loop
    now,         \* the clock, in hours
    faults,      \* number of operations that have failed so far
    call,        \* the analyzer function under analysis and its arguments
    ret,         \* what that function returned
    offset,      \* telegram/mod.rs:19  TelegramNotifier.offset
    inbox,       \* Telegram: the ids of the updates it still holds for the bot
    texts,       \* Telegram: the message text of every update that arrived
    batch,       \* listener.rs:44  api_response.result, what is left to iterate
    handled,     \* history: the update ids the listener's loop went through
    lpc,         \* position of listen_for_commands
    notify,      \* main.rs:63  the state of refresh_notify (tokio::sync::Notify)
    waiter,      \* main.rs:108  the Notified future of the select, if any
    unserved,    \* history: a /refresh was handled and no cycle began since
    heard,       \* history: number of /refresh handled whose notification
                 \* the main loop has not taken yet
    began,       \* history: what began the current cycle, and the number of
                 \* /refresh it took
    page,        \* fetcher.rs:92  the loop variable of fetch
    last_first_ad_id, \* fetcher.rs:89
    full_html,   \* fetcher.rs:84  the pages pushed so far, by their numbers
    response,    \* fetcher.rs:97  the answer to the request of the page, once
                 \* it is there
    fetch_ret    \* what fetch returned

lcVars == <<offers2, grouped, grouped2, lc_i, lifecycles>>

dealVars == <<cfg, stats, good_offers>>

taskVars == <<pc, loop_i, cheapest>>

dbVars == <<db_offers, db_notified, db_stats>>

cycleVars == <<site, taskVars, dbVars, events, cycle, now, faults>>

callVars == <<call, ret>>

listenVars == <<offset, inbox, texts, batch, handled, lpc>>

refreshVars == <<notify, waiter, unserved, heard, began>>

botVars == <<listenVars, refreshVars>>

fetchVars == <<page, last_first_ad_id, full_html, response, fetch_ret>>

sideVars == <<botVars, fetchVars>>

vars == <<offers, lcVars, dealVars, phase, cycleVars, callVars, sideVars>>

(***************************************************************************)
(* Bounds and input sets                                                   *)
(***************************************************************************)
MaxBatch == 3

Ids == {"X", "Y"}
LcPrices == {50, 55}
LcTimes == {0, 10, 20}
DealPrices == {-5, 0, 80, 100, 120}

Abs(x) == IF x < 0 THEN -x ELSE x

SeqsUpTo(n, S) == UNION {[1..k -> S] : k \in 0..n}

Range(s) == {s[k] : k \in DOMAIN s}

\* main.rs:182-189  the ids of a batch (seen_ids)
IdsOf(s) == {o.id : o \in Range(s)}

\* model.rs:7-20 Offer, reduced to the fields the analysis reads.
\* The title is the set of keywords it contains (all the code asks of it).
MkOffer(id, title, price, model, t) ==
    [id |-> id, title |-> title, price |-> price, model |-> model, fetched_at |-> t]

LcOfferSet == {MkOffer(id, {}, p, "m", t) : id \in Ids, p \in LcPrices, t \in LcTimes}

\* s with the elements at positions k and k+1 exchanged.
SwapAdjacent(s, k) ==
    [j \in DOMAIN s |-> IF j = k THEN s[k + 1] ELSE IF j = k + 1 THEN s[k] ELSE s[j]]

\* The input orders compared with s: s itself and every exchange of two
\* neighbours (these generate every permutation of s).
Reorderings(s) == {s} \cup {SwapAdjacent(s, k) : k \in 1..(Len(s) - 1)}

(***************************************************************************)
(* analyzer/lifecycle.rs                                                   *)
(***************************************************************************)
\* f64::EPSILON (2^-52) in price units: it lies strictly below the price
\* grid, so |a - b| > EPSILON holds exactly for a # b.
EPSILON == 0

\* lifecycle.rs:12-17  or_insert_with
NewLifecycle(offer) ==
    [price |-> offer.price, first_seen |-> offer.fetched_at,
     last_seen |-> offer.fetched_at, price_changes |-> 0]

\* lifecycle.rs:20  the price-change test
PriceChanged(offer, entry) == Abs(offer.price - entry.price) > EPSILON

\* A variant of RecordPrice: the counter moves but the stored price is not
\* replaced.
RecordPriceKeepsOld(offer, entry) ==
    IF PriceChanged(offer, entry)
    THEN [entry EXCEPT !.price_changes = @ + 1]
    ELSE entry

\* lifecycle.rs:20-23  count the change and store the new price
RecordPrice(offer, entry) ==
    IF PriceChanged(offer, entry)
    THEN [entry EXCEPT !.price_changes = @ + 1, !.price = offer.price]
    ELSE entry

\* A variant of UpdateSeen: the second branch assigns the wrong field.
UpdateSeenWrongField(offer, entry) ==
    LET e1 == IF offer.fetched_at < entry.first_seen
              THEN [entry EXCEPT !.first_seen = offer.fetched_at]
              ELSE entry
    IN  IF offer.fetched_at > e1.last_seen
        THEN [e1 EXCEPT !.first_seen = offer.fetched_at]
        ELSE e1

\* lifecycle.rs:26-31  widen first_seen and last_seen
UpdateSeen(offer, entry) ==
    LET e1 == IF offer.fetched_at < entry.first_seen
              THEN [entry EXCEPT !.first_seen = offer.fetched_at]
              ELSE entry
    IN  IF offer.fetched_at > e1.last_seen
        THEN [e1 EXCEPT !.last_seen = offer.fetched_at]
        ELSE e1

\* A variant of Observe: the map is keyed by the offer's model instead of
\* its id.
ObserveByModel(g, offer) ==
    LET entry == IF offer.model \in DOMAIN g THEN g[offer.model] ELSE NewLifecycle(offer)
    IN  [k \in DOMAIN g \cup {offer.model} |->
            IF k = offer.model THEN UpdateSeen(offer, RecordPrice(offer, entry))
            ELSE g[k]]

\* lifecycle.rs:10-32  one iteration of the for loop on the map g
Observe(g, offer) ==
    LET entry == IF offer.id \in DOMAIN g THEN g[offer.id] ELSE NewLifecycle(offer)
    IN  [k \in DOMAIN g \cup {offer.id} |->
            IF k = offer.id THEN UpdateSeen(offer, RecordPrice(offer, entry))
            ELSE g[k]]

EmptyMap == [k \in {} |-> 0]

\* The lifecycle variables while another function is under analysis.
LifecycleIdle ==
    /\ offers2 = <<>>
    /\ grouped = EmptyMap
    /\ grouped2 = EmptyMap
    /\ lc_i = 0
    /\ lifecycles = <<>>

NoConfig == [query |-> "none"]

NoStats == [model |-> "none"]

\* The classifier variables while another function is under analysis.
DealsIdle ==
    /\ cfg = NoConfig
    /\ stats = NoStats
    /\ good_offers = <<>>

\* The variables of the processing cycle while a single function is analysed.
CycleIdle ==
    /\ site = <<>>
    /\ pc = <<>>
    /\ loop_i = <<>>
    /\ cheapest = <<>>
    /\ db_offers = EmptyMap
    /\ db_notified = EmptyMap
    /\ db_stats = EmptyMap
    /\ events = {}
    /\ cycle = 0
    /\ now = 0
    /\ faults = 0

NoCall == [fn |-> "none"]

\* The call variables while no single function is called on its own.
CallIdle ==
    /\ call = NoCall
    /\ ret = NoCall

\* Option<T>
None == [kind |-> "None"]

Some(v) == [kind |-> "Some", value |-> v]

Began(by, took) == [by |-> by, took |-> took]

\* The listener and the refresh signal while they are not under analysis.
BotIdle ==
    /\ offset = 0
    /\ inbox = {}
    /\ texts = EmptyMap
    /\ batch = <<>>
    /\ handled = <<>>
    /\ lpc = "none"
    /\ notify = "EMPTY"
    /\ waiter = "none"
    /\ unserved = FALSE
    /\ heard = 0
    /\ began = Began("none", 0)

\* The variables of fetch while it is not under analysis.
FetchIdle ==
    /\ page = 0
    /\ last_first_ad_id = None
    /\ full_html = <<>>
    /\ response = None
    /\ fetch_ret = None

SideIdle == BotIdle /\ FetchIdle

\* The sequences that list the values of map g once per key, in any key order
\* (HashMap::into_values iterates in an unspecified order).
ValueOrders(g) ==
    {[k \in 1..Cardinality(DOMAIN g) |-> g[ord[k]]] :
        ord \in {f \in [1..Cardinality(DOMAIN g) -> DOMAIN g] :
                    \A a, b \in 1..Cardinality(DOMAIN g) : a # b => f[a] # f[b]}}

InitLifecycle ==
    /\ offers \in SeqsUpTo(MaxBatch, LcOfferSet)
    /\ offers2 \in Reorderings(offers)
    /\ grouped = EmptyMap
    /\ grouped2 = EmptyMap
    /\ lc_i = 0
    /\ lifecycles = <<>>
    /\ DealsIdle
    /\ CycleIdle
    /\ CallIdle
    /\ SideIdle
    /\ phase = "lifecycle_loop"

\* lifecycle.rs:10-32  the loop body, on the next offer of each input order
LifecycleStep ==
    /\ phase = "lifecycle_loop"
    /\ lc_i < Len(offers)
    /\ lc_i' = lc_i + 1
    /\ grouped' = Observe(grouped, offers[lc_i + 1])
    /\ grouped2' = Observe(grouped2, offers2[lc_i + 1])
    /\ UNCHANGED <<offers, offers2, lifecycles, dealVars, phase, cycleVars, callVars, sideVars>>

\* lifecycle.rs:34  grouped.into_values().collect()
LifecycleReturn ==
    /\ phase = "lifecycle_loop"
    /\ lc_i = Len(offers)
    /\ lifecycles' \in ValueOrders(grouped)
    /\ phase' = "lifecycle_done"
    /\ UNCHANGED <<offers, offers2, grouped, grouped2, lc_i, dealVars, cycleVars, callVars, sideVars>>

NextLifecycle == LifecycleStep \/ LifecycleReturn

SpecLifecycle == InitLifecycle /\ [][NextLifecycle]_vars

(***************************************************************************)
(* analyzer/price_analysis.rs: calculate_stats and find_deals              *)
(***************************************************************************)
DealOfferSet == {MkOffer(id, {}, p, "m", 0) : id \in Ids, p \in DealPrices}

\* config.rs:5-13 ModelConfig.  deviation_threshold is held in hundredths
\* (0.15 is 15), the other fields in currency units.
MkConfig(query, keywords, dev, delta, min, max) ==
    [query |-> query, match_keywords |-> keywords, deviation_threshold |-> dev,
     min_price_delta |-> delta, min_price |-> min, max_price |-> max]

Configs ==
    {MkConfig("m", <<"m">>, 15, 15, 0, 1000),
     MkConfig("m", <<"m">>, 15, 10, 80, 100),
     MkConfig("m", <<"m">>, 50, 20, 0, 1000)}

\* The f64 quotient num/den; den = 0 only arises as 0.0/0.0, which is NaN.
Frac(num, den) == [num |-> num, den |-> den]

IsNaN(f) == f.den = 0

RECURSIVE SumSeq(_)
SumSeq(s) == IF s = <<>> THEN 0 ELSE Head(s) + SumSeq(Tail(s))

PricesOf(s) == [k \in DOMAIN s |-> s[k].price]

\* A variant of PositivePrices: the filter keeps a price of zero.
PositivePricesIncludingZero(s) == SelectSeq(PricesOf(s), LAMBDA p : p >= 0)

\* price_analysis.rs:34-38  the prices kept by .filter(|&p| p > 0.0)
PositivePrices(s) == SelectSeq(PricesOf(s), LAMBDA p : p > 0)

\* price_analysis.rs:39-40  avg = sum / count
Mean(prices) == Frac(SumSeq(prices), Len(prices))

\* price_analysis.rs:41-45  the terms (p - avg)^2; with avg = s/c each is
\* (c*p - s)^2 / c^2.
SquaredDeviations(prices) ==
    [k \in DOMAIN prices |-> (Len(prices) * prices[k] - SumSeq(prices)) ^ 2]

\* A variant of Variance: the sample variance, divided by count - 1.
VarianceOfSample(prices) ==
    Frac(SumSeq(SquaredDeviations(prices)),
         Len(prices) * Len(prices) * (Len(prices) - 1))

\* price_analysis.rs:41-45  their sum divided by count: sum (c*p - s)^2 / c^3
Variance(prices) ==
    Frac(SumSeq(SquaredDeviations(prices)), Len(prices) * Len(prices) * Len(prices))

\* price_analysis.rs:33-56  calculate_stats.  std_dev is the square root of
\* the fraction held in sqrt_of (the root of NaN is NaN); last_updated
\* (Utc::now) is left out.
calculate_stats(s) ==
    [model |-> IF s = <<>> THEN "unknown" ELSE s[1].model,
     avg_price |-> Mean(PositivePrices(s)),
     std_dev |-> [sqrt_of |-> Variance(PositivePrices(s))]]

\* A variant of OutOfRange: the bounds themselves are outside the range.
OutOfRangeExclusive(offer, c) ==
    offer.price <= c.min_price \/ offer.price >= c.max_price

\* price_analysis.rs:62  the range test (false for either comparison: kept)
OutOfRange(offer, c) ==
    offer.price < c.min_price \/ offer.price > c.max_price

\* A variant of is_under_percent: the threshold is added, not subtracted.
IsUnderPercentSignSlip(offer, st, c) ==
    /\ ~IsNaN(st.avg_price)
    /\ offer.price * st.avg_price.den * 100
          < st.avg_price.num * (100 + c.deviation_threshold)

\* price_analysis.rs:65  offer.price < stats.avg_price * (1.0 - threshold)
is_under_percent(offer, st, c) ==
    /\ ~IsNaN(st.avg_price)
    /\ offer.price * st.avg_price.den * 100
          < st.avg_price.num * (100 - c.deviation_threshold)

\* price_analysis.rs:66  (stats.avg_price - offer.price) >= min_price_delta
is_under_absolute(offer, st, c) ==
    /\ ~IsNaN(st.avg_price)
    /\ st.avg_price.num - offer.price * st.avg_price.den
          >= c.min_price_delta * st.avg_price.den

\* price_analysis.rs:59-72  find_deals: the loop pushes a clone of every offer
\* that passes the range test and one of the two conditions.
RECURSIVE find_deals(_, _, _)
find_deals(s, st, c) ==
    IF s = <<>> THEN <<>>
    ELSE IF OutOfRange(Head(s), c) THEN find_deals(Tail(s), st, c)
    ELSE IF is_under_percent(Head(s), st, c) \/ is_under_absolute(Head(s), st, c)
         THEN <<Head(s)>> \o find_deals(Tail(s), st, c)
         ELSE find_deals(Tail(s), st, c)

InitDeals ==
    /\ offers \in SeqsUpTo(MaxBatch, DealOfferSet)
    /\ cfg \in Configs
    /\ stats = NoStats
    /\ good_offers = <<>>
    /\ LifecycleIdle
    /\ CycleIdle
    /\ CallIdle
    /\ SideIdle
    /\ phase = "stats"

\* main.rs:216  let stats = analyzer.calculate_stats(&offers)
CalculateStats ==
    /\ phase = "stats"
    /\ stats' = calculate_stats(offers)
    /\ phase' = "deals"
    /\ UNCHANGED <<offers, lcVars, cfg, good_offers, cycleVars, callVars, sideVars>>

\* main.rs:236  let good_offers = analyzer.find_deals(&offers, &stats, model_cfg)
FindDeals ==
    /\ phase = "deals"
    /\ good_offers' = find_deals(offers, stats, cfg)
    /\ phase' = "deals_done"
    /\ UNCHANGED <<offers, lcVars, cfg, stats, cycleVars, callVars, sideVars>>

NextDeals == CalculateStats \/ FindDeals

SpecDeals == InitDeals /\ [][NextDeals]_vars

(***************************************************************************)
(* main.rs: the processing cycle.  main's loop builds one process_model    *)
(* future per configured model and drives them with join_all; a future     *)
(* gives way to the others at its awaits (the requests, and every          *)
(* storage.lock()), so each action below runs from one await to the next.  *)
(***************************************************************************)
MaxCycles == 2
MaxFaults == 1

\* sqlite.rs:191  Duration::hours(24), the clock counting hours
DAY == 24

\* config.rs:20  check_interval_seconds of the configuration, in hours
CHECK_INTERVAL == 25

\* config.rs:19  config.models: the query of the first model is one of its
\* keywords, the query of the second is not.
AppModels ==
    <<MkConfig("a", <<"a">>, 15, 10, 0, 1000),
      MkConfig("q", <<"b">>, 15, 10, 0, 1000)>>

Tasks == DOMAIN AppModels

\* One li.ad-listitem of a result page: the id of its link, the keywords its
\* title contains and its price (0 when the price text is no number,
\* klein_parser.rs:65).
Listing(id, title, price) == [id |-> id, title |-> title, price |-> price]

\* What the marketplace may show during a cycle.
Worlds ==
    {<<>>,
     <<Listing("X", {"a"}, 0), Listing("Y", {"b"}, 100)>>,
     <<Listing("X", {"a", "b"}, 80), Listing("Y", {"a", "b"}, 85),
       Listing("Z", {"a", "b"}, 120)>>,
     <<Listing("X", {"a"}, 80), Listing("Y", {"a"}, 85), Listing("Z", {"a"}, 120)>>,
     <<Listing("Z", {"b"}, 80)>>}

NoOffer == [id |-> "none"]

Put(m, k, v) == [x \in DOMAIN m \cup {k} |-> IF x = k THEN v ELSE m[x]]

\* klein_parser.rs:14-107  parse_filtered: the listings inside the price range
\* whose title holds one of the model's keywords, labelled with the query.
parse_filtered(html, c, t) ==
    LET kept == SelectSeq(html, LAMBDA l :
                    /\ ~(l.price < c.min_price \/ l.price > c.max_price)
                    /\ \E k \in DOMAIN c.match_keywords : c.match_keywords[k] \in l.title)
    IN  [k \in DOMAIN kept |->
            MkOffer(kept[k].id, kept[k].title, kept[k].price, c.query, t)]

\* normalizer.rs:13-19  the keywords of all models, in the order of the loops
RECURSIVE KeywordsInOrder(_)
KeywordsInOrder(models) ==
    IF models = <<>> THEN <<>>
    ELSE Head(models).match_keywords \o KeywordsInOrder(Tail(models))

\* normalizer.rs:10-24  normalize_offer: the first keyword the title holds
\* becomes the offer's model, "unknown" when there is none.
normalize_offer(offer, models) ==
    LET kws == KeywordsInOrder(models)
        hits == {k \in DOMAIN kws : kws[k] \in offer.title}
    IN  [offer EXCEPT !.model =
            IF hits = {} THEN "unknown"
            ELSE kws[CHOOSE k \in hits : \A j \in hits : k <= j]]

\* normalizer.rs:4-8
normalize_all(s, models) == [k \in DOMAIN s |-> normalize_offer(s[k], models)]

\* sqlite.rs:75-99  INSERT OR REPLACE INTO offers
save_offer(tbl, offer) == Put(tbl, offer.id, offer)

\* sqlite.rs:150-166  DELETE FROM offers WHERE model = ?1 AND id NOT IN (...)
delete_missing_offers_for_model(tbl, model, current_ids) ==
    [k \in {x \in DOMAIN tbl : ~(tbl[x].model = model /\ x \notin current_ids)}
        |-> tbl[k]]

\* sqlite.rs:169-173
is_notified(tbl, id) == id \in DOMAIN tbl

\* sqlite.rs:176-195
should_notify(tbl, id, t) == IF id \in DOMAIN tbl THEN t - tbl[id] > DAY ELSE TRUE

\* sqlite.rs:198-204
mark_notified(tbl, id, t) == Put(tbl, id, t)

\* sqlite.rs:231-243  INSERT OR REPLACE INTO model_stats
update_stats(tbl, st) == Put(tbl, st.model, st)

\* sqlite.rs:36-37  avg_price and std_dev are REAL NOT NULL, and SQLite binds
\* a NaN as NULL: the INSERT of a NaN fails with a constraint error.
RejectedByStatsTable(st) == IsNaN(st.avg_price) \/ IsNaN(st.std_dev.sqrt_of)

\* telegram/mod.rs:105-119  the stored offers of the model with the least price
CheapestOf(tbl, model_name) ==
    LET model_offers == {tbl[k] : k \in {x \in DOMAIN tbl : tbl[x].model = model_name}}
    IN  {o \in model_offers : \A q \in model_offers : o.price <= q.price}

Event(ev, p, id) == [ev |-> ev, task |-> p, cycle |-> cycle, id |-> id]

CanFail == faults < MaxFaults

mainFrame == <<lcVars, cfg, phase, site, cycle, now, callVars, sideVars>>

InitCycle ==
    /\ LifecycleIdle
    /\ cfg = NoConfig
    /\ offers = [p \in Tasks |-> <<>>]
    /\ stats = [p \in Tasks |-> NoStats]
    /\ good_offers = [p \in Tasks |-> <<>>]
    /\ phase = "loop_top"
    /\ site = <<>>
    /\ pc = [p \in Tasks |-> "idle"]
    /\ loop_i = [p \in Tasks |-> 0]
    /\ cheapest = [p \in Tasks |-> NoOffer]
    /\ db_offers = EmptyMap
    /\ db_notified = EmptyMap
    /\ db_stats = EmptyMap
    /\ events = {}
    /\ cycle = 0
    /\ now = 0
    /\ faults = 0
    /\ CallIdle
    /\ SideIdle

\* main.rs:81-98  the top of the loop: one process_model future per model
StartCycle ==
    /\ phase = "loop_top"
    /\ cycle < MaxCycles
    /\ cycle' = cycle + 1
    /\ site' \in Worlds
    /\ phase' = "join_all"
    /\ pc' = [p \in Tasks |-> "start"]
    /\ offers' = [p \in Tasks |-> <<>>]
    /\ stats' = [p \in Tasks |-> NoStats]
    /\ good_offers' = [p \in Tasks |-> <<>>]
    /\ loop_i' = [p \in Tasks |-> 0]
    /\ cheapest' = [p \in Tasks |-> NoOffer]
    /\ UNCHANGED <<lcVars, cfg, dbVars, events, now, faults, callVars, sideVars>>

\* main.rs:98  join_all(tasks).await completes when every future has
JoinAll ==
    /\ phase = "join_all"
    /\ \A p \in Tasks : pc[p] = "done"
    /\ phase' = "select"
    /\ UNCHANGED <<offers, lcVars, dealVars, cycleVars, callVars, sideVars>>

\* main.rs:104-112  the timer fires after the interval, or a refresh sooner
Wake ==
    /\ phase = "select"
    /\ \E elapsed \in {0, CHECK_INTERVAL} : now' = now + elapsed
    /\ phase' = "loop_top"
    /\ UNCHANGED <<offers, lcVars, dealVars, site, taskVars, dbVars, events, cycle, faults,
                   callVars, sideVars>>

\* A variant of Fetch: an error is taken for a result without offers.
FetchErrorAsEmpty(p) ==
    /\ phase = "join_all"
    /\ pc[p] = "start"
    /\ \/ /\ site # <<>>
          /\ LET parsed == normalize_all(parse_filtered(site, AppModels[p], now),
                                         AppModels)
             IN  /\ offers' = [offers EXCEPT ![p] = parsed]
                 /\ pc' = [pc EXCEPT ![p] = IF parsed = <<>> THEN "delete" ELSE "save"]
          /\ loop_i' = [loop_i EXCEPT ![p] = 1]
          /\ UNCHANGED <<faults, events>>
       \/ /\ site = <<>>
          /\ events' = events \cup {Event("fetch_failed", p, AppModels[p].query)}
          /\ pc' = [pc EXCEPT ![p] = "delete"]
          /\ UNCHANGED <<offers, loop_i, faults>>
       \/ /\ CanFail
          /\ faults' = faults + 1
          /\ events' = events \cup {Event("fetch_failed", p, AppModels[p].query)}
          /\ pc' = [pc EXCEPT ![p] = "delete"]
          /\ UNCHANGED <<offers, loop_i>>
    /\ UNCHANGED <<mainFrame, stats, good_offers, cheapest, dbVars>>

\* main.rs:155-179  fetch, parse_filtered and normalize_all.  fetch fails
\* when no page held an item (fetcher.rs:138) or a request failed; an error
\* of either ends the task.
Fetch(p) ==
    /\ phase = "join_all"
    /\ pc[p] = "start"
    /\ \/ /\ site # <<>>
          /\ LET parsed == normalize_all(parse_filtered(site, AppModels[p], now),
                                         AppModels)
             IN  /\ offers' = [offers EXCEPT ![p] = parsed]
                 /\ pc' = [pc EXCEPT ![p] = IF parsed = <<>> THEN "delete" ELSE "save"]
          /\ loop_i' = [loop_i EXCEPT ![p] = 1]
          /\ UNCHANGED <<faults, events>>
       \/ /\ site = <<>>
          /\ events' = events \cup {Event("fetch_failed", p, AppModels[p].query)}
          /\ pc' = [pc EXCEPT ![p] = "done"]
          /\ UNCHANGED <<offers, loop_i, faults>>
       \/ /\ CanFail
          /\ faults' = faults + 1
          /\ events' = events \cup {Event("fetch_failed", p, AppModels[p].query)}
          /\ pc' = [pc EXCEPT ![p] = "done"]
          /\ UNCHANGED <<offers, loop_i>>
    /\ UNCHANGED <<mainFrame, stats, good_offers, cheapest, dbVars>>

\* main.rs:183-188  one iteration of the save loop
SaveOffer(p) ==
    /\ phase = "join_all"
    /\ pc[p] = "save"
    /\ \/ /\ db_offers' = save_offer(db_offers, offers[p][loop_i[p]])
          /\ events' = events \cup {Event("save_offer", p, offers[p][loop_i[p]].id)}
          /\ UNCHANGED faults
       \/ /\ CanFail
          /\ faults' = faults + 1
          /\ UNCHANGED <<db_offers, events>>
    /\ loop_i' = [loop_i EXCEPT ![p] = @ + 1]
    /\ pc' = [pc EXCEPT ![p] = IF loop_i[p] < Len(offers[p]) THEN "save" ELSE "delete"]
    /\ UNCHANGED <<mainFrame, offers, stats, good_offers, cheapest,
                   db_notified, db_stats>>

\* main.rs:189-198  delete_missing_offers_for_model(&model_cfg.query, &seen_vec)
DeleteMissing(p) ==
    /\ phase = "join_all"
    /\ pc[p] = "delete"
    /\ \/ /\ db_offers' = delete_missing_offers_for_model(
                              db_offers, AppModels[p].query, IdsOf(offers[p]))
          /\ UNCHANGED faults
       \/ /\ CanFail
          /\ faults' = faults + 1
          /\ UNCHANGED db_offers
    /\ pc' = [pc EXCEPT ![p] = "update_stats"]
    /\ UNCHANGED <<mainFrame, offers, stats, good_offers, loop_i, cheapest,
                   db_notified, db_stats, events>>

\* main.rs:200-225  analyze_offers (its result is only logged), calculate_stats
\* and update_stats
UpdateStats(p) ==
    /\ phase = "join_all"
    /\ pc[p] = "update_stats"
    /\ LET st == calculate_stats(offers[p])
       IN  /\ stats' = [stats EXCEPT ![p] = st]
           /\ \/ /\ ~RejectedByStatsTable(st)
                 /\ db_stats' = update_stats(db_stats, st)
                 /\ events' = events \cup {Event("update_stats", p, st.model)}
                 /\ UNCHANGED faults
              \/ /\ RejectedByStatsTable(st)
                 /\ UNCHANGED <<db_stats, events, faults>>
              \/ /\ ~RejectedByStatsTable(st)
                 /\ CanFail
                 /\ faults' = faults + 1
                 /\ UNCHANGED <<db_stats, events>>
    /\ pc' = [pc EXCEPT ![p] = "cheapest_get"]
    /\ UNCHANGED <<mainFrame, offers, good_offers, loop_i, cheapest,
                   db_offers, db_notified>>

\* main.rs:236-240  find_deals and the entry of the notification loop
EnterDeals(p) ==
    LET found == find_deals(offers[p], stats[p], AppModels[p])
    IN  /\ good_offers' = [good_offers EXCEPT ![p] = found]
        /\ loop_i' = [loop_i EXCEPT ![p] = 1]
        /\ pc' = [pc EXCEPT ![p] = IF found = <<>> THEN "done" ELSE "deal_check"]

\* telegram/mod.rs:97-119  get_all_offers and the choice of the cheapest
CheapestGet(p) ==
    /\ phase = "join_all"
    /\ pc[p] = "cheapest_get"
    /\ \/ /\ CheapestOf(db_offers, AppModels[p].query) # {}
          /\ cheapest' \in {[cheapest EXCEPT ![p] = o] :
                                o \in CheapestOf(db_offers, AppModels[p].query)}
          /\ pc' = [pc EXCEPT ![p] = "cheapest_check"]
          /\ UNCHANGED <<good_offers, loop_i, faults>>
       \/ /\ CheapestOf(db_offers, AppModels[p].query) = {}
          /\ EnterDeals(p)
          /\ UNCHANGED <<cheapest, faults>>
       \/ /\ CanFail
          /\ faults' = faults + 1
          /\ EnterDeals(p)
          /\ UNCHANGED cheapest
    /\ UNCHANGED <<mainFrame, offers, stats, dbVars, events>>

\* telegram/mod.rs:127-141  should_notify; an error counts as false
CheapestCheck(p) ==
    /\ phase = "join_all"
    /\ pc[p] = "cheapest_check"
    /\ \/ /\ should_notify(db_notified, cheapest[p].id, now)
          /\ pc' = [pc EXCEPT ![p] = "cheapest_send"]
          /\ UNCHANGED <<good_offers, loop_i, faults>>
       \/ /\ ~should_notify(db_notified, cheapest[p].id, now)
          /\ EnterDeals(p)
          /\ UNCHANGED faults
       \/ /\ CanFail
          /\ faults' = faults + 1
          /\ EnterDeals(p)
    /\ UNCHANGED <<mainFrame, offers, stats, cheapest, dbVars, events>>

\* telegram/mod.rs:148-158  notifier.notify(cheapest)
CheapestSend(p) ==
    /\ phase = "join_all"
    /\ pc[p] = "cheapest_send"
    /\ \/ /\ events' = events \cup {Event("cheapest", p, cheapest[p].id)}
          /\ pc' = [pc EXCEPT ![p] = "cheapest_mark"]
          /\ UNCHANGED <<good_offers, loop_i, faults>>
       \/ /\ CanFail
          /\ faults' = faults + 1
          /\ events' = events \cup {Event("cheapest_send_failed", p, cheapest[p].id)}
          /\ EnterDeals(p)
    /\ UNCHANGED <<mainFrame, offers, stats, cheapest, dbVars>>

\* telegram/mod.rs:151-153  mark_notified(&cheapest.id)
CheapestMark(p) ==
    /\ phase = "join_all"
    /\ pc[p] = "cheapest_mark"
    /\ \/ /\ db_notified' = mark_notified(db_notified, cheapest[p].id, now)
          /\ UNCHANGED faults
       \/ /\ CanFail
          /\ faults' = faults + 1
          /\ UNCHANGED db_notified
    /\ EnterDeals(p)
    /\ UNCHANGED <<mainFrame, offers, stats, cheapest, db_offers, db_stats, events>>

\* main.rs:240  the loop passes to its next offer, or ends
NextDeal(p) ==
    /\ loop_i' = [loop_i EXCEPT ![p] = @ + 1]
    /\ pc' = [pc EXCEPT ![p] =
                 IF loop_i[p] < Len(good_offers[p]) THEN "deal_check" ELSE "done"]

\* main.rs:243-253  is_notified(&offer.id)
DealCheck(p) ==
    /\ phase = "join_all"
    /\ pc[p] = "deal_check"
    /\ \/ /\ ~is_notified(db_notified, good_offers[p][loop_i[p]].id)
          /\ pc' = [pc EXCEPT ![p] = "deal_send"]
          /\ UNCHANGED <<loop_i, faults>>
       \/ /\ is_notified(db_notified, good_offers[p][loop_i[p]].id)
          /\ NextDeal(p)
          /\ UNCHANGED faults
       \/ /\ CanFail
          /\ faults' = faults + 1
          /\ NextDeal(p)
    /\ UNCHANGED <<mainFrame, offers, stats, good_offers, cheapest, dbVars, events>>

\* A variant of DealSend: the id is marked whether the send succeeded or not.
DealSendThenMarkAlways(p) ==
    /\ phase = "join_all"
    /\ pc[p] = "deal_send"
    /\ \/ /\ events' = events \cup {Event("deal", p, good_offers[p][loop_i[p]].id)}
          /\ pc' = [pc EXCEPT ![p] = "deal_mark"]
          /\ UNCHANGED <<loop_i, faults, db_notified>>
       \/ /\ CanFail
          /\ faults' = faults + 1
          /\ events' = events \cup
                 {Event("deal_send_failed", p, good_offers[p][loop_i[p]].id)}
          /\ db_notified' = mark_notified(db_notified, good_offers[p][loop_i[p]].id, now)
          /\ NextDeal(p)
    /\ UNCHANGED <<mainFrame, offers, stats, good_offers, cheapest, db_offers, db_stats>>

\* main.rs:255-257  notifier.notify(&offer)
DealSend(p) ==
    /\ phase = "join_all"
    /\ pc[p] = "deal_send"
    /\ \/ /\ events' = events \cup {Event("deal", p, good_offers[p][loop_i[p]].id)}
          /\ pc' = [pc EXCEPT ![p] = "deal_mark"]
          /\ UNCHANGED <<loop_i, faults>>
       \/ /\ CanFail
          /\ faults' = faults + 1
          /\ events' = events \cup
                 {Event("deal_send_failed", p, good_offers[p][loop_i[p]].id)}
          /\ NextDeal(p)
    /\ UNCHANGED <<mainFrame, offers, stats, good_offers, cheapest, dbVars>>

\* main.rs:258-262  mark_notified(&offer.id)
DealMark(p) ==
    /\ phase = "join_all"
    /\ pc[p] = "deal_mark"
    /\ \/ /\ db_notified' = mark_notified(db_notified, good_offers[p][loop_i[p]].id, now)
          /\ UNCHANGED faults
       \/ /\ CanFail
          /\ faults' = faults + 1
          /\ UNCHANGED db_notified
    /\ NextDeal(p)
    /\ UNCHANGED <<mainFrame, offers, stats, good_offers, cheapest,
                   db_offers, db_stats, events>>

\* main.rs:118-266  process_model
ProcessModel(p) ==
    \/ Fetch(p)
    \/ SaveOffer(p)
    \/ DeleteMissing(p)
    \/ UpdateStats(p)
    \/ CheapestGet(p)
    \/ CheapestCheck(p)
    \/ CheapestSend(p)
    \/ CheapestMark(p)
    \/ DealCheck(p)
    \/ DealSend(p)
    \/ DealMark(p)

NextCycle == StartCycle \/ JoinAll \/ Wake \/ \E p \in Tasks : ProcessModel(p)

SpecCycle == InitCycle /\ [][NextCycle]_vars

(***************************************************************************)
(* analyzer/market_indicators.rs, with find_deals_expanded and             *)
(* analyze_offers of analyzer/price_analysis.rs: each function called on   *)
(* its own.  A call is held in the variable call, its outcome in ret.      *)
(* A chrono Duration is a whole number of ticks (nanoseconds in chrono).   *)
(***************************************************************************)
MaxSeries == 3

\* chrono counts 10^9 nanoseconds to the second; the model's second has
\* this many ticks.
TicksPerSecond == 2

\* market_indicators.rs:16
DEFAULT_STEP == 50

\* The outcomes of a call: a returned value, or a panic that unwinds.
Returned(v) == [kind |-> "value", value |-> v]

Panic(msg) == [kind |-> "panic", msg |-> msg]

Pending == [kind |-> "pending"]

\* market_indicators.rs:7  struct PriceRange(pub u32, pub u32)
PriceRange(lower, upper) == [lower |-> lower, upper |-> upper]

\* A variant of round: the fraction is cut off instead of rounded.
truncate(f) ==
    IF f.num >= 0 THEN f.num \div f.den ELSE -((-f.num) \div f.den)

\* market_indicators.rs:75  f64::round on the price num/den: the nearest
\* integer, a half going away from zero.
round(f) ==
    IF f.num >= 0 THEN (2 * f.num + f.den) \div (2 * f.den)
    ELSE -((2 * (-f.num) + f.den) \div (2 * f.den))

\* market_indicators.rs:75  `as u32` saturates: NaN and every negative number
\* become 0 (the prices of the model stay far below u32::MAX).
round_as_u32(f) ==
    IF IsNaN(f) THEN 0
    ELSE IF round(f) < 0 THEN 0 ELSE round(f)

\* market_indicators.rs:74-78  get_price_range_with_step.  The u32 division
\* by a step of 0 panics.
get_price_range_with_step(price, step) ==
    IF step = 0 THEN Panic("attempt to divide by zero")
    ELSE LET price_int == round_as_u32(price)
             lower == (price_int \div step) * step
         IN  Returned(PriceRange(lower, lower + step))

\* market_indicators.rs:69-71  get_price_range, on a price in whole units
get_price_range(price) ==
    get_price_range_with_step(Frac(price, 1), DEFAULT_STEP).value

\* market_indicators.rs:23, 102  offer.last_seen - offer.first_seen
Lifespan(o) == o.last_seen - o.first_seen

\* The keys of the map the grouping loops build.
RangesOf(lcs) == {get_price_range(lcs[k].price) : k \in DOMAIN lcs}

\* market_indicators.rs:20-25, 82-86, 99-104  the vector the loop has pushed
\* under key r, as the records of that range in the order of the records,
Pushed(lcs, r) == SelectSeq(lcs, LAMBDA o : get_price_range(o.price) = r)

\* and the lifespans pushed for them.
LifespansOf(s) == [k \in DOMAIN s |-> Lifespan(s[k])]

\* chrono's Duration / i32: the quotient in whole ticks, the remainder lost
\* downwards.
DurationDiv(d, n) == d \div n

\* A variant of disappearance_speed: the total is divided by the number of
\* all records.
disappearance_speed_over_all(lcs) ==
    [r \in RangesOf(lcs) |->
        DurationDiv(SumSeq(LifespansOf(Pushed(lcs, r))), Len(lcs))]

\* market_indicators.rs:19-33  disappearance_speed
disappearance_speed(lcs) ==
    [r \in RangesOf(lcs) |->
        LET durations == LifespansOf(Pushed(lcs, r))
        IN  DurationDiv(SumSeq(durations), Len(durations))]

\* A variant of price_change_frequency: the hundredths are cut off, not
\* rounded.
price_change_frequency_truncated(lcs) ==
    IF lcs = <<>> THEN Frac(0, 1)
    ELSE LET total_changes == SumSeq([k \in DOMAIN lcs |-> lcs[k].price_changes])
         IN  Frac(truncate(Frac(total_changes * 100, Len(lcs))), 100)

\* market_indicators.rs:36-43  price_change_frequency, exact in hundredths
price_change_frequency(lcs) ==
    IF lcs = <<>> THEN Frac(0, 1)
    ELSE LET total_changes == SumSeq([k \in DOMAIN lcs |-> lcs[k].price_changes])
         IN  Frac(round(Frac(total_changes * 100, Len(lcs))), 100)

\* market_indicators.rs:81-95  price_volatility: the root of the population
\* variance of the prices of each range
price_volatility(lcs) ==
    [r \in RangesOf(lcs) |-> [sqrt_of |-> Variance(PricesOf(Pushed(lcs, r)))]]

\* chrono's Duration::num_seconds: the whole seconds, towards zero
num_seconds(d) ==
    IF d >= 0 THEN d \div TicksPerSecond ELSE -((-d) \div TicksPerSecond)

\* d placed behind the elements of s whose key is not greater (s is in key
\* order, so these are a prefix).
InsertByKey(s, d) ==
    LET n == Cardinality({k \in DOMAIN s : num_seconds(s[k]) <= num_seconds(d)})
    IN  SubSeq(s, 1, n) \o <<d>> \o SubSeq(s, n + 1, Len(s))

\* market_indicators.rs:108  durations.sort_by_key(|d| d.num_seconds()): a
\* stable sort, equal keys keep the order they were pushed in.
RECURSIVE sort_by_key(_)
sort_by_key(s) ==
    IF s = <<>> THEN <<>>
    ELSE InsertByKey(sort_by_key(SubSeq(s, 1, Len(s) - 1)), s[Len(s)])

\* A variant of median_of: an even-sized group yields its upper middle.
median_upper_middle(durations) ==
    sort_by_key(durations)[(Len(durations) \div 2) + 1]

\* market_indicators.rs:109-116  the median of one group (indices from 1)
median_of(durations) ==
    LET sorted == sort_by_key(durations)
        mid == Len(sorted) \div 2
    IN  IF Len(sorted) % 2 = 0
        THEN LET d1 == sorted[mid]
                 d2 == sorted[mid + 1]
             IN  d1 + DurationDiv(d2 - d1, 2)
        ELSE sorted[mid + 1]

\* market_indicators.rs:98-120  lifespan_median
lifespan_median(lcs) ==
    [r \in RangesOf(lcs) |-> median_of(LifespansOf(Pushed(lcs, r)))]

\* market_indicators.rs:64  the floor 1e-6 of the losses is 1 / this
LOSSES_FLOOR_INV == 1000000

\* market_indicators.rs:53-60  gains: the sum of the deltas above zero
RECURSIVE Gains(_)
Gains(s) ==
    IF Len(s) < 2 THEN 0
    ELSE (IF s[2] - s[1] > 0 THEN s[2] - s[1] ELSE 0) + Gains(Tail(s))

\* A variant of Losses: the delta is added, not subtracted.
RECURSIVE LossesSigned(_)
LossesSigned(s) ==
    IF Len(s) < 2 THEN 0
    ELSE (IF s[2] - s[1] > 0 THEN 0 ELSE s[2] - s[1]) + LossesSigned(Tail(s))

\* market_indicators.rs:53-60  losses: minus the sum of the other deltas
RECURSIVE Losses(_)
Losses(s) ==
    IF Len(s) < 2 THEN 0
    ELSE (IF s[2] - s[1] > 0 THEN 0 ELSE -(s[2] - s[1])) + Losses(Tail(s))

\* market_indicators.rs:64  losses.max(1e-6)
LossesFloored(losses) ==
    IF losses * LOSSES_FLOOR_INV > 1 THEN Frac(losses, 1) ELSE Frac(1, LOSSES_FLOOR_INV)

\* The f64 value 100 - f, for a fraction f.
HundredMinus(f) == [hundred_minus |-> f]

\* market_indicators.rs:64-65  rs = gains / floored;  100 - 100 / (1 + rs)
RsiOf(gains, floored) ==
    LET rs == Frac(gains * floored.den, floored.num)
    IN  HundredMinus(Frac(100 * rs.den, rs.num + rs.den))

\* A variant of compute_rsi: the test for a flat series is missing.
compute_rsi_unguarded(avg_prices) ==
    IF Len(avg_prices) < 2 THEN HundredMinus(Frac(100, 1))
    ELSE RsiOf(Gains(avg_prices), LossesFloored(Losses(avg_prices)))

\* market_indicators.rs:47-66  compute_rsi; 0.0 is 100 - 100 and 50.0 is
\* 100 - 50.
compute_rsi(avg_prices) ==
    IF Len(avg_prices) < 2 THEN HundredMinus(Frac(100, 1))
    ELSE IF Gains(avg_prices) + Losses(avg_prices) = 0 THEN HundredMinus(Frac(50, 1))
    ELSE RsiOf(Gains(avg_prices), LossesFloored(Losses(avg_prices)))

\* A variant of moving_average: the last window is left out.
moving_average_short(data, window_size) ==
    IF window_size = 0 \/ Len(data) < window_size THEN <<>>
    ELSE [i \in 1..(Len(data) - window_size) |->
            Frac(SumSeq(SubSeq(data, i, i + window_size - 1)), window_size)]

\* market_indicators.rs:123-130  moving_average
moving_average(data, window_size) ==
    IF window_size = 0 \/ Len(data) < window_size THEN <<>>
    ELSE [i \in 1..(Len(data) - window_size + 1) |->
            Frac(SumSeq(SubSeq(data, i, i + window_size - 1)), window_size)]

\* market_indicators.rs:139-143  n times the deviations from the mean:
\* with mean = sum / n, x[k] - mean is (n * x[k] - sum) / n.
Deviations(x) == [k \in DOMAIN x |-> Len(x) * x[k] - SumSeq(x)]

\* A variant of Numerator: the products of the values, not of the deviations.
NumeratorUncentred(x, y) ==
    Len(x) * Len(x) * SumSeq([k \in DOMAIN x |-> x[k] * y[k]])

\* market_indicators.rs:141  n^2 times the numerator
Numerator(x, y) ==
    SumSeq([k \in DOMAIN x |-> Deviations(x)[k] * Deviations(y)[k]])

\* market_indicators.rs:142-143  n^2 times denominator_x (and denominator_y)
SumSquares(x) == SumSeq([k \in DOMAIN x |-> Deviations(x)[k] * Deviations(x)[k]])

\* A variant of ZeroDenominator: only the first series is looked at.
ZeroDenominatorInX(x, y) == SumSquares(x) = 0

\* market_indicators.rs:144-145  (denominator_x * denominator_y).sqrt() == 0.0
ZeroDenominator(x, y) == SumSquares(x) * SumSquares(y) = 0

\* market_indicators.rs:134-150  compute_correlation.  The value returned is
\* num / sqrt(den.sqrt_of); the factors n^2 of both cancel.
compute_correlation(x, y) ==
    IF Len(x) # Len(y) \/ x = <<>> THEN None
    ELSE IF ZeroDenominator(x, y) THEN None
    ELSE Some([num |-> Numerator(x, y),
               den |-> [sqrt_of |-> SumSquares(x) * SumSquares(y)]])

\* lifecycle.rs:10-32  the whole loop over the batch
RECURSIVE ObserveAll(_, _)
ObserveAll(g, s) ==
    IF s = <<>> THEN g ELSE ObserveAll(Observe(g, Head(s)), Tail(s))

\* lifecycle.rs:7-35  build_lifecycle_data: what it may return
build_lifecycle_data(s) == ValueOrders(ObserveAll(EmptyMap, s))

\* A variant of AnalysisOf: the RSI is taken over the prices as they come.
AnalysisOfUnsorted(lcs) ==
    [disappearance_map |-> disappearance_speed(lcs),
     price_change_frequency |-> price_change_frequency(lcs),
     rsi |-> compute_rsi([k \in DOMAIN lcs |-> lcs[k].price]),
     volatility_map |-> price_volatility(lcs),
     lifespan_median |-> lifespan_median(lcs)]

\* price_analysis.rs:142-162  the indicators of analyze_offers over the
\* lifecycle records.  The sort of line 149 unwraps partial_cmp, which is
\* defined on the prices of the model (none is NaN).
AnalysisOf(lcs) ==
    [disappearance_map |-> disappearance_speed(lcs),
     price_change_frequency |-> price_change_frequency(lcs),
     rsi |-> compute_rsi(SortSeq([k \in DOMAIN lcs |-> lcs[k].price],
                                 LAMBDA a, b : a < b)),
     volatility_map |-> price_volatility(lcs),
     lifespan_median |-> lifespan_median(lcs)]

\* price_analysis.rs:86
VOLATILITY_THRESHOLD == 20

\* A variant of TooVolatile: a range without entry counts as unstable.
TooVolatileOrUnknown(volatility_map, range) ==
    IF range \in DOMAIN volatility_map
    THEN LET v == volatility_map[range].sqrt_of
         IN  IF IsNaN(v) THEN FALSE
             ELSE v.num > VOLATILITY_THRESHOLD * VOLATILITY_THRESHOLD * v.den
    ELSE TRUE

\* price_analysis.rs:104-109  the range has an entry and volatility > 20.0;
\* the volatility is the root of the fraction v.
TooVolatile(volatility_map, range) ==
    IF range \in DOMAIN volatility_map
    THEN LET v == volatility_map[range].sqrt_of
         IN  IF IsNaN(v) THEN FALSE
             ELSE v.num > VOLATILITY_THRESHOLD * VOLATILITY_THRESHOLD * v.den
    ELSE FALSE

\* price_analysis.rs:77-116  find_deals_expanded
RECURSIVE find_deals_expanded(_, _, _, _)
find_deals_expanded(s, st, c, analysis) ==
    IF s = <<>> THEN <<>>
    ELSE IF OutOfRange(Head(s), c) THEN find_deals_expanded(Tail(s), st, c, analysis)
    ELSE IF ~(is_under_percent(Head(s), st, c) \/ is_under_absolute(Head(s), st, c))
         THEN find_deals_expanded(Tail(s), st, c, analysis)
    ELSE IF TooVolatile(analysis.volatility_map,
                        get_price_range_with_step(Frac(Head(s).price, 1),
                                                  DEFAULT_STEP).value)
         THEN find_deals_expanded(Tail(s), st, c, analysis)
    ELSE <<Head(s)>> \o find_deals_expanded(Tail(s), st, c, analysis)

\* The arguments the functions are called with.
PriceArgs == {Frac(n, 10) : n \in {-15, -4, 0, 4, 5, 495, 499, 500, 1234, 1495, 1500}}

StepArgs == {0, 1, 7, 50}

MkLifecycle(price, first_seen, last_seen, price_changes) ==
    [price |-> price, first_seen |-> first_seen, last_seen |-> last_seen,
     price_changes |-> price_changes]

DurRecords == {MkLifecycle(p, 1, t, 0) : p \in {40, 100}, t \in {1, 2, 3, 4, 6}}

VolRecords == {MkLifecycle(p, 1, 1, 0) : p \in {40, 100, 120, 149}}

FreqRecords == {MkLifecycle(40, 1, 1, n) : n \in 0..3}

RsiPrices == {10, 11, 13}

SeriesValues == {1, 2, 4}

AnalyzeOfferSet == {MkOffer(id, {}, p, "m", t) : id \in Ids, p \in {40, 100}, t \in {0, 3}}

ExpandedOfferSet == {MkOffer(id, {}, p, "m", 0) : id \in Ids, p \in {40, 100, 149}}

ExpandedConfigs ==
    {MkConfig("m", <<"m">>, 15, 15, 0, 1000),
     MkConfig("m", <<"m">>, 15, 15, 50, 120)}

\* The lifecycle records behind the analysis handed to find_deals_expanded.
Histories ==
    {<<>>,
     <<MkLifecycle(100, 1, 1, 0), MkLifecycle(149, 1, 1, 0)>>,
     <<MkLifecycle(100, 1, 1, 0), MkLifecycle(120, 1, 1, 0)>>,
     <<MkLifecycle(40, 1, 1, 0), MkLifecycle(0, 1, 1, 0), MkLifecycle(149, 1, 1, 0)>>}

Call1(fn, S) == {[fn |-> fn, arg |-> a] : a \in S}

IndicatorCalls ==
    {[fn |-> "get_price_range_with_step", price |-> p, step |-> st] :
        p \in PriceArgs, st \in StepArgs}
    \cup Call1("disappearance_speed", SeqsUpTo(MaxSeries, DurRecords))
    \cup Call1("lifespan_median", SeqsUpTo(MaxSeries, DurRecords))
    \cup Call1("price_volatility", SeqsUpTo(MaxSeries, VolRecords))
    \cup Call1("price_change_frequency", SeqsUpTo(MaxSeries, FreqRecords))
    \cup Call1("compute_rsi", SeqsUpTo(MaxSeries, RsiPrices))
    \cup {[fn |-> "moving_average", data |-> d, window_size |-> w] :
            d \in SeqsUpTo(MaxSeries, SeriesValues), w \in 0..(MaxSeries + 1)}
    \cup {[fn |-> "compute_correlation", x |-> x, y |-> y] :
            x \in SeqsUpTo(MaxSeries, SeriesValues),
            y \in SeqsUpTo(MaxSeries, SeriesValues)}
    \cup Call1("analyze_offers", SeqsUpTo(MaxSeries, AnalyzeOfferSet))
    \cup {[fn |-> "find_deals_expanded", offers |-> s, stats |-> calculate_stats(s),
           cfg |-> c, analysis |-> AnalysisOf(h)] :
            s \in SeqsUpTo(MaxSeries, ExpandedOfferSet), c \in ExpandedConfigs,
            h \in Histories}

InitIndicators ==
    /\ call \in IndicatorCalls
    /\ ret = Pending
    /\ offers = <<>>
    /\ LifecycleIdle
    /\ DealsIdle
    /\ CycleIdle
    /\ SideIdle
    /\ phase = "call"

\* The call of fn ends with outcome v.
Return(fn, v) ==
    /\ phase = "call"
    /\ call.fn = fn
    /\ ret' = v
    /\ phase' = "returned"
    /\ UNCHANGED <<offers, lcVars, dealVars, cycleVars, call, sideVars>>

GetPriceRangeWithStep ==
    /\ call.fn = "get_price_range_with_step"
    /\ Return("get_price_range_with_step",
              get_price_range_with_step(call.price, call.step))

DisappearanceSpeed ==
    /\ call.fn = "disappearance_speed"
    /\ Return("disappearance_speed", Returned(disappearance_speed(call.arg)))

LifespanMedian ==
    /\ call.fn = "lifespan_median"
    /\ Return("lifespan_median", Returned(lifespan_median(call.arg)))

PriceVolatility ==
    /\ call.fn = "price_volatility"
    /\ Return("price_volatility", Returned(price_volatility(call.arg)))

PriceChangeFrequency ==
    /\ call.fn = "price_change_frequency"
    /\ Return("price_change_frequency", Returned(price_change_frequency(call.arg)))

ComputeRsi ==
    /\ call.fn = "compute_rsi"
    /\ Return("compute_rsi", Returned(compute_rsi(call.arg)))

MovingAverage ==
    /\ call.fn = "moving_average"
    /\ Return("moving_average", Returned(moving_average(call.data, call.window_size)))

ComputeCorrelation ==
    /\ call.fn = "compute_correlation"
    /\ Return("compute_correlation", Returned(compute_correlation(call.x, call.y)))

\* price_analysis.rs:137-163  analyze_offers
AnalyzeOffers ==
    /\ call.fn = "analyze_offers"
    /\ \E lcs \in build_lifecycle_data(call.arg) :
           Return("analyze_offers", Returned(AnalysisOf(lcs)))

FindDealsExpanded ==
    /\ call.fn = "find_deals_expanded"
    /\ Return("find_deals_expanded",
              Returned(find_deals_expanded(call.offers, call.stats, call.cfg,
                                           call.analysis)))

NextIndicators ==
    \/ GetPriceRangeWithStep
    \/ DisappearanceSpeed
    \/ LifespanMedian
    \/ PriceVolatility
    \/ PriceChangeFrequency
    \/ ComputeRsi
    \/ MovingAverage
    \/ ComputeCorrelation
    \/ AnalyzeOffers
    \/ FindDealsExpanded

SpecIndicators == InitIndicators /\ [][NextIndicators]_vars

(***************************************************************************)
(* notifier/telegram/listener.rs and command_handler.rs with the select of *)
(* main.rs: the command listener, a task of its own (main.rs:73), and the  *)
(* main loop it wakes through refresh_notify.                              *)
(***************************************************************************)
MaxUpdates == 3

\* What a message may hold: two of the commands, or no text at all.
Texts == {"/refresh", "/ping", "no text"}

RECURSIVE Ascending(_)
Ascending(S) ==
    IF S = {} THEN <<>>
    ELSE LET m == CHOOSE x \in S : \A y \in S : x <= y
         IN  <<m>> \o Ascending(S \ {m})

\* listener.rs:38-43  getUpdates?offset=o answers with the updates Telegram
\* holds from update_id o on, in the order of their ids
getUpdates(pending, o) == Ascending({u \in pending : u >= o})

\* ... and forgets the updates below o.
Confirmed(pending, o) == {u \in pending : u >= o}

\* A variant of notify_one, Notify::notify_waiters(): no permit is kept.
notify_waiters ==
    IF waiter = "waiting"
    THEN waiter' = "notified" /\ notify' = "EMPTY"
    ELSE UNCHANGED <<notify, waiter>>

\* command_handler.rs:37  refresh_notify.notify_one(): a waiting Notified is
\* notified, and without one the Notify keeps a single permit.
notify_one ==
    IF waiter = "waiting"
    THEN waiter' = "notified" /\ notify' = "EMPTY"
    ELSE notify' = "NOTIFIED" /\ UNCHANGED waiter

botFrame == <<offers, lcVars, dealVars, cycleVars, callVars, fetchVars>>

InitBot ==
    /\ offset = 0
    /\ inbox = {}
    /\ texts = EmptyMap
    /\ batch = <<>>
    /\ handled = <<>>
    /\ lpc = "poll"
    /\ notify = "EMPTY"
    /\ waiter = "none"
    /\ unserved = FALSE
    /\ heard = 0
    /\ began = Began("start", 0)
    /\ phase = "join_all"
    /\ offers = <<>>
    /\ LifecycleIdle
    /\ DealsIdle
    /\ CycleIdle
    /\ CallIdle
    /\ FetchIdle

\* A user sends the bot a message: Telegram numbers the updates consecutively.
Arrive ==
    /\ Cardinality(DOMAIN texts) < MaxUpdates
    /\ \E t \in Texts :
          LET id == Cardinality(DOMAIN texts) + 1
          IN  /\ texts' = Put(texts, id, t)
              /\ inbox' = inbox \cup {id}
    /\ UNCHANGED <<offset, batch, handled, lpc, refreshVars, phase, botFrame>>

\* listener.rs:37-43  the request with offset current_offset + 1; a failed
\* request or an answer that is no TelegramApiResponse leaves the loop body
Poll ==
    /\ lpc = "poll"
    /\ \/ /\ batch' = getUpdates(inbox, offset + 1)
          /\ inbox' = Confirmed(inbox, offset + 1)
          /\ lpc' = IF getUpdates(inbox, offset + 1) = <<>> THEN "sleep" ELSE "handle"
       \/ /\ lpc' = "sleep"
          /\ UNCHANGED <<batch, inbox>>
    /\ UNCHANGED <<offset, texts, handled, refreshVars, phase, botFrame>>

\* listener.rs:44-50  one iteration over api_response.result: handle_command
\* for a message with a text (command_handler.rs:35-41 for /refresh), then
\* offset.store(update_id + 1)
HandleUpdate ==
    /\ lpc = "handle"
    /\ LET update_id == Head(batch)
       IN  /\ IF texts[update_id] = "/refresh"
              THEN /\ notify_one
                   /\ unserved' = TRUE
                   /\ heard' = heard + 1
              ELSE UNCHANGED <<notify, waiter, unserved, heard>>
           /\ handled' = Append(handled, update_id)
           /\ offset' = update_id + 1
    /\ batch' = Tail(batch)
    /\ lpc' = IF Tail(batch) = <<>> THEN "sleep" ELSE "handle"
    /\ UNCHANGED <<inbox, texts, began, phase, botFrame>>

\* listener.rs:53  sleep(Duration::from_secs(1))
Sleep ==
    /\ lpc = "sleep"
    /\ lpc' = "poll"
    /\ UNCHANGED <<offset, inbox, texts, batch, handled, refreshVars, phase, botFrame>>

\* main.rs:98-108 with a permit: join_all completes, the select polls
\* notified(), which takes the permit and is ready, and the loop begins its
\* next cycle (no await lies between)
CycleEndsRefreshed ==
    /\ phase = "join_all"
    /\ notify = "NOTIFIED"
    /\ notify' = "EMPTY"
    /\ unserved' = FALSE
    /\ heard' = 0
    /\ began' = Began("refresh", heard)
    /\ UNCHANGED <<listenVars, waiter, phase, botFrame>>

\* main.rs:98-108 without a permit: the select waits on the timer and on
\* notified()
CycleEndsWaiting ==
    /\ phase = "join_all"
    /\ notify # "NOTIFIED"
    /\ notify' = "WAITING"
    /\ waiter' = "waiting"
    /\ phase' = "select"
    /\ UNCHANGED <<listenVars, unserved, heard, began, botFrame>>

\* main.rs:108-110  the notified() branch of the select
WakeByRefresh ==
    /\ phase = "select"
    /\ waiter = "notified"
    /\ waiter' = "none"
    /\ unserved' = FALSE
    /\ heard' = heard - 1
    /\ began' = Began("refresh", 1)
    /\ phase' = "join_all"
    /\ UNCHANGED <<listenVars, notify, botFrame>>

\* main.rs:105-107  the timer branch of the select; the Notified future is
\* dropped, and one that was notified hands its notification back
TimerFires ==
    /\ phase = "select"
    /\ notify' = IF waiter = "notified" THEN "NOTIFIED" ELSE "EMPTY"
    /\ waiter' = "none"
    /\ unserved' = FALSE
    /\ began' = Began("timer", 0)
    /\ phase' = "join_all"
    /\ UNCHANGED <<listenVars, heard, botFrame>>

Listener == Arrive \/ Poll \/ HandleUpdate \/ Sleep

MainLoop == CycleEndsRefreshed \/ CycleEndsWaiting \/ WakeByRefresh \/ TimerFires

NextBot == Listener \/ MainLoop

SpecBot == InitBot /\ [][NextBot]_vars

\* The listener is polled until it sleeps, and a cycle ends: its requests
\* carry timeouts.  Nothing obliges a user to write or the timer to fire.
SpecBotFair ==
    /\ SpecBot
    /\ WF_vars(Poll \/ HandleUpdate \/ Sleep)
    /\ WF_vars(CycleEndsRefreshed \/ CycleEndsWaiting \/ WakeByRefresh)

(***************************************************************************)
(* scraper/fetcher.rs: ScraperImpl::fetch, the loop over the result pages  *)
(* of one query.                                                           *)
(***************************************************************************)
\* fetcher.rs:90  let max_pages = 20
max_pages == 20

\* fetcher.rs:121-125  the data-adid of the first article.aditem, if any
AdIds == {None, Some("A"), Some("B")}

\* What a request may be answered with: no answer or no body
\* (fetcher.rs:97-106), a status that is no success (fetcher.rs:108-110), or
\* a page with so many li.ad-listitem (fetcher.rs:112-113).
Responses ==
    {[kind |-> "failed"], [kind |-> "status"]}
        \cup {[kind |-> "page", items |-> n, first_ad_id |-> a] :
                 n \in {0, 2}, a \in AdIds}

Ok(v) == [kind |-> "Ok", value |-> v]

Err(e) == [kind |-> "Err", error |-> e]

\* A variant of StopsAt: only a page without items ends the loop.
StopsAtEmptyOnly(r, last) == r.items = 0

\* fetcher.rs:116-132  the two breaks of the loop
StopsAt(r, last) ==
    IF r.items = 0 THEN TRUE
    ELSE r.first_ad_id # None /\ last # None /\ r.first_ad_id = last

\* fetcher.rs:138-142  what fetch returns after its loop
AfterLoop(html) == IF html = <<>> THEN Err("HtmlParseError") ELSE Ok(html)

fetchFrame == <<offers, lcVars, dealVars, phase, cycleVars, callVars, botVars>>

InitFetch ==
    /\ page = 1
    /\ last_first_ad_id = None
    /\ full_html = <<>>
    /\ response = None
    /\ fetch_ret = None
    /\ phase = "fetch"
    /\ offers = <<>>
    /\ LifecycleIdle
    /\ DealsIdle
    /\ CycleIdle
    /\ CallIdle
    /\ BotIdle

\* fetcher.rs:93-106  the request of the page
SendRequest ==
    /\ phase = "fetch"
    /\ fetch_ret = None
    /\ response = None
    /\ response' \in Responses
    /\ UNCHANGED <<page, last_first_ad_id, full_html, fetch_ret, fetchFrame>>

\* fetcher.rs:97-110  a failed request or a bad status returns the error
ReturnError ==
    /\ response # None
    /\ response.kind # "page"
    /\ fetch_ret = None
    /\ fetch_ret' = Err(IF response.kind = "failed" THEN "HttpError" ELSE "InvalidResponse")
    /\ UNCHANGED <<page, last_first_ad_id, full_html, response, fetchFrame>>

\* fetcher.rs:116-132, 138-142  a break, and the return that follows it
Break ==
    /\ response # None
    /\ response.kind = "page"
    /\ StopsAt(response, last_first_ad_id)
    /\ fetch_ret = None
    /\ fetch_ret' = AfterLoop(full_html)
    /\ UNCHANGED <<page, last_first_ad_id, full_html, response, fetchFrame>>

\* fetcher.rs:133-136  the page is pushed; after page max_pages the loop is
\* over and fetch returns (fetcher.rs:138-142)
PushPage ==
    /\ response # None
    /\ response.kind = "page"
    /\ ~StopsAt(response, last_first_ad_id)
    /\ fetch_ret = None
    /\ last_first_ad_id' = response.first_ad_id
    /\ full_html' = Append(full_html, page)
    /\ page' = page + 1
    /\ response' = None
    /\ fetch_ret' = IF page = max_pages THEN AfterLoop(Append(full_html, page)) ELSE None
    /\ UNCHANGED fetchFrame

NextFetch == SendRequest \/ ReturnError \/ Break \/ PushPage

SpecFetch == InitFetch /\ [][NextFetch]_vars

\* The future of fetch is awaited by process_model, and every request is
\* answered or fails.
SpecFetchFair == SpecFetch /\ WF_vars(NextFetch)

(***************************************************************************)
(* Claims about build_lifecycle_data (checked under SpecLifecycle)         *)
(***************************************************************************)
\* The observations of identity id in batch s, in input order.
ObsOf(s, id) == SelectSeq(s, LAMBDA o : o.id = id)

\* The observations of id among the first n offers of s.
ObsOfPrefix(s, n, id) == ObsOf(SubSeq(s, 1, n), id)

TimesOf(s) == {o.fetched_at : o \in Range(s)}

MinOf(S) == CHOOSE m \in S : \A x \in S : m <= x

MaxOf(S) == CHOOSE m \in S : \A x \in S : m >= x

PriceTimePairs(s) == [k \in DOMAIN s |-> <<s[k].price, s[k].fetched_at>>]

RECURSIVE SumPriceChanges(_, _)
SumPriceChanges(g, S) ==
    IF S = {} THEN 0
    ELSE LET k == CHOOSE x \in S : TRUE
         IN  g[k].price_changes + SumPriceChanges(g, S \ {k})

RECURSIVE SumPriceChangesSeq(_)
SumPriceChangesSeq(s) ==
    IF s = <<>> THEN 0 ELSE Head(s).price_changes + SumPriceChangesSeq(Tail(s))

Finals(r) == <<r.price, r.first_seen, r.last_seen>>

\* One loop iteration seen from outside: the record of the observed identity
\* starts at 0 changes with the observed price, or counts one change and takes
\* the new price exactly when the prices differ by more than the epsilon; no
\* other record moves.
C1_StepOK ==
    (phase = "lifecycle_loop" /\ lc_i' = lc_i + 1) =>
        LET o == offers[lc_i + 1]
        IN  /\ DOMAIN grouped' = DOMAIN grouped \cup {o.id}
            /\ \A k \in DOMAIN grouped \ {o.id} : grouped'[k] = grouped[k]
            /\ o.id \notin DOMAIN grouped =>
                  /\ grouped'[o.id].price_changes = 0
                  /\ grouped'[o.id].price = o.price
            /\ o.id \in DOMAIN grouped =>
                  IF Abs(o.price - grouped[o.id].price) > EPSILON
                  THEN /\ grouped'[o.id].price_changes = grouped[o.id].price_changes + 1
                       /\ grouped'[o.id].price = o.price
                  ELSE /\ grouped'[o.id].price_changes = grouped[o.id].price_changes
                       /\ grouped'[o.id].price = grouped[o.id].price

C1_Scenarios ==
    phase = "lifecycle_done" =>
        \A id \in DOMAIN grouped :
            /\ Cardinality({o.price : o \in Range(ObsOf(offers, id))}) = 1
                  => grouped[id].price_changes = 0
            /\ PriceTimePairs(ObsOf(offers, id)) = <<<<50, 0>>, <<55, 10>>, <<50, 20>>>>
                  => grouped[id].price_changes = 2 /\ grouped[id].price = 50

\* C1: build_lifecycle_data is a state machine over the observations in input
\* order: price_changes starts at 0, moves by one exactly when the observed
\* price differs from the stored one by more than the epsilon, and the stored
\* price then becomes the observed one; equal prices give 0 changes, and
\* 50 (t=0), 55 (t=10), 50 (t=20) give 2 changes and stored price 50.
C1_PriceChangeMachine == [][C1_StepOK]_vars /\ [](C1_Scenarios)

C1_Witness ==
    /\ phase = "lifecycle_done"
    /\ PriceTimePairs(ObsOf(offers, "X")) = <<<<50, 0>>, <<55, 10>>, <<50, 20>>>>
    /\ grouped["X"].price_changes = 2

\* C2: for every batch, the sum of price_changes over the produced records is
\* the same for every input order of the observations that leaves the final
\* stored values (price, first_seen, last_seen) of every record unchanged.
C2_SumInvariantToOrder ==
    (/\ phase = "lifecycle_done"
     /\ \A id \in DOMAIN grouped : Finals(grouped[id]) = Finals(grouped2[id]))
        => SumPriceChangesSeq(lifecycles) = SumPriceChanges(grouped2, DOMAIN grouped2)

\* C3: for two input orders of the same observations in which every
\* identity's observations have pairwise distinct timestamps, each identity's
\* record (stored price, first_seen, last_seen) is identical.
C3_OrderOnlyMattersOnTies ==
    (/\ phase = "lifecycle_done"
     /\ \A id \in IdsOf(offers) :
            Cardinality(TimesOf(ObsOf(offers, id))) = Len(ObsOf(offers, id)))
        => \A id \in DOMAIN grouped : Finals(grouped[id]) = Finals(grouped2[id])

\* C4: every record satisfies first_seen <= last_seen after every prefix of the
\* batch; first_seen is the minimum and last_seen the maximum timestamp of the
\* identity's observations processed so far, whatever the input order.
C4_SeenBounds ==
    /\ \A id \in DOMAIN grouped :
          /\ grouped[id].first_seen <= grouped[id].last_seen
          /\ grouped[id].first_seen = MinOf(TimesOf(ObsOfPrefix(offers, lc_i, id)))
          /\ grouped[id].last_seen = MaxOf(TimesOf(ObsOfPrefix(offers, lc_i, id)))
    /\ \A id \in DOMAIN grouped2 :
          /\ grouped2[id].first_seen <= grouped2[id].last_seen
          /\ grouped2[id].first_seen = MinOf(TimesOf(ObsOfPrefix(offers2, lc_i, id)))
          /\ grouped2[id].last_seen = MaxOf(TimesOf(ObsOfPrefix(offers2, lc_i, id)))
    /\ phase = "lifecycle_done" =>
          \A id \in DOMAIN grouped :
              /\ grouped2[id].first_seen = grouped[id].first_seen
              /\ grouped2[id].last_seen = grouped[id].last_seen

C4_Witness ==
    /\ phase = "lifecycle_done"
    /\ offers # offers2
    /\ Len(ObsOf(offers, "X")) = 3
    /\ grouped["X"].first_seen = 0
    /\ grouped["X"].last_seen = 20
    /\ offers[1].fetched_at = 10

\* C5: the function returns exactly one record per distinct identity of the
\* batch, and an empty collection for an empty batch.
C5_OneRecordPerIdentity ==
    phase = "lifecycle_done" =>
        /\ Len(lifecycles) = Cardinality(IdsOf(offers))
        /\ DOMAIN grouped = IdsOf(offers)
        /\ offers = <<>> => lifecycles = <<>>

C5_Witness ==
    /\ phase = "lifecycle_done"
    /\ Len(offers) = 3
    /\ Cardinality(IdsOf(offers)) = 2
    /\ Len(lifecycles) = 2

(***************************************************************************)
(* Claims about calculate_stats and find_deals (checked under SpecDeals)   *)
(***************************************************************************)
\* The positions of the batch whose price is strictly positive.
PositiveIdx(s) == {k \in DOMAIN s : s[k].price > 0}

RECURSIVE SumPricesAt(_, _)
SumPricesAt(s, K) ==
    IF K = {} THEN 0
    ELSE LET k == CHOOSE x \in K : TRUE
         IN  s[k].price + SumPricesAt(s, K \ {k})

\* N^2 times the sum of squared distances of the prices at K from their mean.
RECURSIVE SumSqDevAt(_, _, _)
SumSqDevAt(s, K, All) ==
    IF K = {} THEN 0
    ELSE LET k == CHOOSE x \in K : TRUE
         IN  (Cardinality(All) * s[k].price - SumPricesAt(s, All)) ^ 2
                + SumSqDevAt(s, K \ {k}, All)

SameFrac(f, g) == f.den # 0 /\ g.den # 0 /\ f.num * g.den = g.num * f.den

\* The fraction f, rounded to two decimals, is r hundredths.
RoundsTo(f, r) == f.den > 0 /\ 2 * Abs(100 * f.num - r * f.den) <= f.den

\* The square root of the fraction f, rounded to two decimals, is r hundredths.
SqrtRoundsTo(f, r) ==
    /\ f.den > 0
    /\ (2 * r - 1) * (2 * r - 1) * f.den <= 40000 * f.num
    /\ 40000 * f.num < (2 * r + 1) * (2 * r + 1) * f.den

\* The deal condition in the words of the specification.
Qualifies(offer, st, c) ==
    /\ c.min_price <= offer.price
    /\ offer.price <= c.max_price
    /\ ~IsNaN(st.avg_price)
    /\ \/ 100 * offer.price * st.avg_price.den
              < st.avg_price.num * (100 - c.deviation_threshold)
       \/ st.avg_price.num - offer.price * st.avg_price.den
              >= c.min_price_delta * st.avg_price.den

\* C6: find_deals returns exactly the listings with min_price <= price <=
\* max_price (both inclusive) and (price < mean * (1 - deviation_threshold) or
\* mean - price >= min_price_delta), in input order, and nothing else.
C6_DealsAreTheQualifying ==
    phase = "deals_done" =>
        good_offers = SelectSeq(offers, LAMBDA o : Qualifies(o, stats, cfg))

C6_Witness ==
    /\ phase = "deals_done"
    /\ cfg = MkConfig("m", <<"m">>, 15, 10, 80, 100)
    /\ PricesOf(offers) = <<100, 120, 120>>
    /\ good_offers = <<offers[1]>>

ScenarioC7 ==
    /\ phase = "deals_done"
    /\ PricesOf(offers) = <<100, 100, 80>>
    /\ cfg = MkConfig("m", <<"m">>, 15, 15, 0, 1000)

\* C7 as stated: for the listings 100, 100, 80 with deviation_threshold 0.15,
\* min_price_delta 15, min_price 0, max_price 1000, the mean is 93.33, the
\* deviation about 9.43, and find_deals returns the listing at 80 and neither
\* listing at 100.
C7_ScenarioAsStated ==
    ScenarioC7 =>
        /\ RoundsTo(stats.avg_price, 9333)
        /\ SqrtRoundsTo(stats.std_dev.sqrt_of, 943)
        /\ good_offers = <<offers[3]>>

\* C7 amended: same batch and thresholds, mean 93.33 and deviation about
\* 9.43, but find_deals returns no listing: 80 is not below 93.33 * 0.85 =
\* 79.33, and 93.33 - 80 = 13.33 is below the min_price_delta of 15.
C7_ScenarioNoDeal ==
    ScenarioC7 =>
        /\ RoundsTo(stats.avg_price, 9333)
        /\ SqrtRoundsTo(stats.std_dev.sqrt_of, 943)
        /\ good_offers = <<>>

C7_Witness == ScenarioC7 /\ stats.avg_price = Frac(280, 3) /\ good_offers = <<>>

\* C8: for a batch with no strictly positive price calculate_stats signals a
\* failure; it never hands back a ModelStats whose mean or deviation is NaN.
C8_EmptyInputIsAnError ==
    (phase # "stats" /\ PositiveIdx(offers) = {}) =>
        ~(IsNaN(stats.avg_price) \/ IsNaN(stats.std_dev.sqrt_of))

\* C10: calculate_stats returns the arithmetic mean and the population
\* deviation (divided by N) of the strictly positive prices of the batch, and
\* the listings with price <= 0 have no influence on either.
C10_MeanAndPopulationDeviation ==
    (phase # "stats" /\ PositiveIdx(offers) # {}) =>
        LET K == PositiveIdx(offers)
            N == Cardinality(K)
            kept == SelectSeq(offers, LAMBDA o : o.price > 0)
        IN  /\ SameFrac(stats.avg_price, Frac(SumPricesAt(offers, K), N))
            /\ SameFrac(stats.std_dev.sqrt_of, Frac(SumSqDevAt(offers, K, K), N * N * N))
            /\ calculate_stats(kept).avg_price = stats.avg_price
            /\ calculate_stats(kept).std_dev = stats.std_dev

C10_Witness ==
    /\ phase = "deals"
    /\ PricesOf(offers) = <<0, 80, 100>>
    /\ stats.avg_price = Frac(180, 2)
    /\ stats.std_dev.sqrt_of = Frac(800, 8)

(***************************************************************************)
(* Claims about the processing cycle (checked under SpecCycle)             *)
(***************************************************************************)
\* Task p has run calculate_stats in the current cycle and got no mean.
StatsFailed(p) ==
    /\ phase \in {"join_all", "select"}
    /\ stats[p] # NoStats
    /\ IsNaN(stats[p].avg_price)

\* What task p has written or sent in the current cycle.
EventsOf(p) ==
    {e \in events : /\ e.task = p
                    /\ e.cycle = cycle
                    /\ e.ev \in {"update_stats", "cheapest", "deal"}}

\* C9: when calculate_stats fails for a product (no positive price), no stats
\* row is written and no cheapest or deal notification is sent for that
\* product in that cycle, and the other products of the cycle are still
\* analysed and their stats stored.
C9_StatsFailureSkipsProduct ==
    \A p \in Tasks :
        StatsFailed(p) =>
            /\ EventsOf(p) = {}
            /\ (phase = "select" /\ faults = 0) =>
                   \A q \in Tasks \ {p} :
                       PositiveIdx(offers[q]) # {} =>
                           \E e \in EventsOf(q) : e.ev = "update_stats"

(***************************************************************************)
(* Claims about the market indicators (checked under SpecIndicators)       *)
(***************************************************************************)
\* The call of fn has returned.
Done(fn) == phase = "returned" /\ call.fn = fn

\* The step-50 range of a price in whole units, in the words of the
\* specification: the price floored to a multiple of the step.
SpecRange(price) ==
    [lower |-> price - (price % DEFAULT_STEP),
     upper |-> price - (price % DEFAULT_STEP) + DEFAULT_STEP]

\* The volatility sqrt(v) is at most 20.
AtMostThreshold(v) == v.den > 0 /\ v.num <= 400 * v.den

\* The listing passes the volatility filter of the expanded policy.
Stable(o, volatility_map) ==
    \/ SpecRange(o.price) \notin DOMAIN volatility_map
    \/ AtMostThreshold(volatility_map[SpecRange(o.price)].sqrt_of)

\* C11: find_deals_expanded returns exactly the listings that satisfy the
\* find_deals condition and whose step-50 price range has no entry in the
\* volatility map or a volatility of at most 20.0, in input order; the result
\* is a subset of what find_deals returns on the same arguments.
C11_ExpandedDealsFilterByVolatility ==
    Done("find_deals_expanded") =>
        /\ ret.value = SelectSeq(call.offers, LAMBDA o :
                            /\ Qualifies(o, call.stats, call.cfg)
                            /\ Stable(o, call.analysis.volatility_map))
        /\ Range(ret.value) \subseteq
               Range(find_deals(call.offers, call.stats, call.cfg))

\* A listing that satisfies the base condition is left out for its range's
\* volatility, while find_deals returns it.
C11_Witness ==
    /\ Done("find_deals_expanded")
    /\ \E o \in Range(call.offers) :
           /\ Qualifies(o, call.stats, call.cfg)
           /\ ~Stable(o, call.analysis.volatility_map)
           /\ o \in Range(find_deals(call.offers, call.stats, call.cfg))
           /\ o \notin Range(ret.value)

\* The integer nearest to the fraction f, a half going away from zero.
Nearest(f) ==
    CHOOSE r \in -200..200 :
        \/ 2 * Abs(f.num - r * f.den) < f.den
        \/ 2 * Abs(f.num - r * f.den) = f.den /\ Abs(r * f.den) > Abs(f.num)

\* What the claim says of the range returned for a price and a step.
RangeContract(outcome, price, step) ==
    /\ outcome.kind = "value"
    /\ outcome.value.lower <= Nearest(price)
    /\ Nearest(price) < outcome.value.upper
    /\ outcome.value.upper - outcome.value.lower = step
    /\ \E k \in 0..200 : outcome.value.lower = k * step

ScenarioC12 ==
    (call.price = Frac(1234, 10) /\ call.step = 50) => ret.value = PriceRange(100, 150)

IndicatorFunctions ==
    {"get_price_range_with_step", "disappearance_speed", "price_change_frequency",
     "compute_rsi", "price_volatility", "lifespan_median", "moving_average",
     "compute_correlation", "analyze_offers"}

\* C13: every function of the Market Indicator Engine, and analyze_offers
\* that composes them, returns a value for every input (an empty input, a
\* single-point series and a zero denominator included); none of them aborts.
C13_IndicatorsAreTotal ==
    (phase = "returned" /\ call.fn \in IndicatorFunctions) => ret.kind = "value"

\* The f64 value v returned by compute_rsi is the integer n.
RsiIs(v, n) ==
    v.hundred_minus.den > 0 /\ v.hundred_minus.num = (100 - n) * v.hundred_minus.den

\* Every delta between neighbours of the series is zero.
Flat(s) == \A k \in 1..(Len(s) - 1) : s[k + 1] = s[k]

\* C14: compute_rsi returns 0 for every series of fewer than 2 points and
\* exactly 50 for every series of 2 or more points whose deltas are all zero,
\* as for [10, 10, 10].
C14_RsiShortIsZeroFlatIsFifty ==
    Done("compute_rsi") =>
        /\ Len(call.arg) < 2 => RsiIs(ret.value, 0)
        /\ (Len(call.arg) >= 2 /\ Flat(call.arg)) => RsiIs(ret.value, 50)

C14_Witness ==
    /\ Done("compute_rsi")
    /\ call.arg = <<10, 10, 10>>
    /\ RsiIs(ret.value, 50)

\* The deltas between the neighbours of the series.
DeltasOf(s) == [k \in 1..(Len(s) - 1) |-> s[k + 1] - s[k]]

GainsOf(s) ==
    SumSeq([k \in DOMAIN DeltasOf(s) |-> IF DeltasOf(s)[k] > 0 THEN DeltasOf(s)[k] ELSE 0])

LossesOf(s) ==
    SumSeq([k \in DOMAIN DeltasOf(s) |-> IF DeltasOf(s)[k] < 0 THEN -DeltasOf(s)[k] ELSE 0])

\* v is 100 - 100 / (1 + g / max(l, 1e-6)) for the whole numbers g and l:
\* 100 - 100 * l / (l + g) when l >= 1, 100 - 100 / (1 + g * 10^6) when l = 0.
RsiFormula(v, g, l) ==
    IF l >= 1
    THEN v.hundred_minus.num * (l + g) = 100 * l * v.hundred_minus.den
    ELSE v.hundred_minus.num * (1 + g * 1000000) = 100 * v.hundred_minus.den

\* C15: for every series of 2 or more points compute_rsi returns a value in
\* [0, 100]; when the series is not flat the value is
\* 100 - 100 / (1 + gains / max(losses, 1e-6)), gains being the sum of the
\* positive deltas and losses the sum of the absolute negative deltas.
C15_RsiBoundedAndByFormula ==
    (Done("compute_rsi") /\ Len(call.arg) >= 2) =>
        /\ ret.value.hundred_minus.den > 0
        /\ ret.value.hundred_minus.num >= 0
        /\ ret.value.hundred_minus.num <= 100 * ret.value.hundred_minus.den
        /\ ~Flat(call.arg) =>
               RsiFormula(ret.value, GainsOf(call.arg), LossesOf(call.arg))

\* A series that rises and falls: its RSI lies strictly inside (0, 100).
C15_Witness ==
    /\ Done("compute_rsi")
    /\ call.arg = <<10, 13, 11>>
    /\ RsiFormula(ret.value, 3, 2)
    /\ ret.value.hundred_minus.num = 40 * ret.value.hundred_minus.den

\* The records of lcs whose stored price lies in range r, by position.
RecordsIn(lcs, r) == {k \in DOMAIN lcs : SpecRange(lcs[k].price) = r}

\* The sum of the lifespans (last_seen - first_seen) of the records at S.
RECURSIVE SumLifespansAt(_, _)
SumLifespansAt(lcs, S) ==
    IF S = {} THEN 0
    ELSE LET k == CHOOSE x \in S : TRUE
         IN  (lcs[k].last_seen - lcs[k].first_seen) + SumLifespansAt(lcs, S \ {k})

\* d is the mean of the lifespans at S, in whole ticks of a Duration.
IsMeanLifespan(d, lcs, S) ==
    /\ Cardinality(S) * d <= SumLifespansAt(lcs, S)
    /\ SumLifespansAt(lcs, S) < Cardinality(S) * (d + 1)

\* C16: disappearance_speed has an entry for exactly the step-50 ranges that
\* hold the stored price of at least one record (no entry, not a zero one,
\* for the others), and the entry is the arithmetic mean of the lifespans
\* last_seen - first_seen of the records of that range.
C16_MeanLifespanPerRange ==
    Done("disappearance_speed") =>
        /\ DOMAIN ret.value = {SpecRange(call.arg[k].price) : k \in DOMAIN call.arg}
        /\ \A r \in DOMAIN ret.value :
               IsMeanLifespan(ret.value[r], call.arg, RecordsIn(call.arg, r))

\* Two ranges hold records, one of them two records of different lifespans.
C16_Witness ==
    /\ Done("disappearance_speed")
    /\ Cardinality(DOMAIN ret.value) = 2
    /\ \E r \in DOMAIN ret.value :
           \E j, k \in RecordsIn(call.arg, r) :
               /\ Lifespan(call.arg[j]) < Lifespan(call.arg[k])
               /\ Lifespan(call.arg[j]) <= ret.value[r]
               /\ ret.value[r] < Lifespan(call.arg[k])

\* The lifespans pushed under range r, in the order of the records.
LifespansIn(lcs, r) ==
    LET kept == SelectSeq(lcs, LAMBDA o : SpecRange(o.price) = r)
    IN  [k \in DOMAIN kept |-> kept[k].last_seen - kept[k].first_seen]

\* The place of element i of d once d is sorted by whole seconds, elements
\* of equal seconds keeping their order.
PlaceBySeconds(d, i) ==
    1 + Cardinality({j \in DOMAIN d :
                        \/ num_seconds(d[j]) < num_seconds(d[i])
                        \/ num_seconds(d[j]) = num_seconds(d[i]) /\ j < i})

ElementAtPlace(d, p) == d[CHOOSE i \in DOMAIN d : PlaceBySeconds(d, i) = p]

\* v is the median of the group d as the claim describes it.
IsMedianBySeconds(v, d) ==
    LET mid == Len(d) \div 2
    IN  IF Len(d) % 2 = 1
        THEN v = ElementAtPlace(d, mid + 1)
        ELSE LET d1 == ElementAtPlace(d, mid)
                 d2 == ElementAtPlace(d, mid + 1)
             IN  /\ num_seconds(d1) <= num_seconds(d2)
                 /\ Abs(2 * v - (d1 + d2)) <= 1

\* C17: lifespan_median has, for each price range that holds records, the
\* median of their lifespans after sorting by whole seconds: the middle
\* element of an odd-sized group, the point halfway between the two middle
\* elements, d1 + (d2 - d1)/2, of an even-sized group; it lies between the
\* least and the greatest lifespan of the group.
C17_MedianLifespanPerRange ==
    Done("lifespan_median") =>
        /\ DOMAIN ret.value = {SpecRange(call.arg[k].price) : k \in DOMAIN call.arg}
        /\ \A r \in DOMAIN ret.value :
               LET d == LifespansIn(call.arg, r)
               IN  /\ IsMedianBySeconds(ret.value[r], d)
                   /\ \E k \in DOMAIN d : d[k] <= ret.value[r]
                   /\ \E k \in DOMAIN d : ret.value[r] <= d[k]

\* A group of two whose median is neither of its lifespans, and in the same
\* call a group of one.
C17_Witness ==
    /\ Done("lifespan_median")
    /\ \E r \in DOMAIN ret.value :
           LET d == LifespansIn(call.arg, r)
           IN  /\ Len(d) = 2
               /\ ret.value[r] \notin Range(d)
               /\ 2 * ret.value[r] = d[1] + d[2]
    /\ \E r \in DOMAIN ret.value : Len(LifespansIn(call.arg, r)) = 1

\* data[a] + ... + data[b]
RECURSIVE SumFromTo(_, _, _)
SumFromTo(data, a, b) ==
    IF a > b THEN 0 ELSE data[a] + SumFromTo(data, a + 1, b)

\* C18: moving_average(data, w) returns the empty sequence when w = 0 or
\* len(data) < w; otherwise it returns len(data) - w + 1 values, the i-th
\* being the arithmetic mean of data[i .. i+w-1].
C18_MovingAverageWindows ==
    Done("moving_average") =>
        IF call.window_size = 0 \/ Len(call.data) < call.window_size
        THEN ret.value = <<>>
        ELSE /\ Len(ret.value) = Len(call.data) - call.window_size + 1
             /\ \A i \in DOMAIN ret.value :
                    /\ ret.value[i].den > 0
                    /\ ret.value[i].num * call.window_size
                         = ret.value[i].den
                             * SumFromTo(call.data, i, i + call.window_size - 1)

\* Three points under a window of two: two means, the second that of the
\* last two points.
C18_Witness ==
    /\ Done("moving_average")
    /\ call.data = <<1, 2, 4>>
    /\ call.window_size = 2
    /\ Len(ret.value) = 2
    /\ ret.value[2] = Frac(6, 2)

\* n times the sum of the squared deviations of x from its mean:
\* n * sum(x^2) - (sum x)^2.
SquaredDeviationSum(x) ==
    Len(x) * SumSeq([k \in DOMAIN x |-> x[k] * x[k]]) - SumSeq(x) * SumSeq(x)

Constant(x) == \A j, k \in DOMAIN x : x[j] = x[k]

\* The cases in which the claim has compute_correlation return None.
Undefined(x, y) ==
    \/ Len(x) # Len(y)
    \/ x = <<>>
    \/ y = <<>>
    \/ SquaredDeviationSum(x) * SquaredDeviationSum(y) = 0

\* C19: compute_correlation(x, y) returns None when the lengths differ, when
\* either series is empty, or when the product of the two sums of squared
\* deviations is zero (a series without variance); in every other case it
\* returns a number.
C19_CorrelationUndefinedCases ==
    Done("compute_correlation") =>
        /\ Undefined(call.x, call.y) <=> ret.value = None
        /\ ~Undefined(call.x, call.y) => ret.value.kind = "Some"
        /\ (Len(call.x) = Len(call.y) /\ (Constant(call.x) \/ Constant(call.y)))
               => ret.value = None

\* A series with variance against a constant one of the same length.
C19_Witness ==
    /\ Done("compute_correlation")
    /\ call.x = <<1, 2, 4>>
    /\ call.y = <<2, 2, 2>>
    /\ ret.value = None

\* C20: for every non-empty series x that is not constant,
\* compute_correlation(x, x) returns 1: the numerator equals the denominator.
C20_SelfCorrelationIsOne ==
    (Done("compute_correlation") /\ call.x = call.y /\ call.x # <<>>
        /\ ~Constant(call.x)) =>
        /\ ret.value.kind = "Some"
        /\ ret.value.value.num > 0
        /\ ret.value.value.num * ret.value.value.num = ret.value.value.den.sqrt_of

C20_Witness ==
    /\ Done("compute_correlation")
    /\ call.x = <<1, 2, 4>>
    /\ call.y = <<1, 2, 4>>
    /\ ret.value = Some([num |-> 42, den |-> [sqrt_of |-> 42 * 42]])

\* The sum of price_changes over the records at the positions S.
RECURSIVE SumChangesAt(_, _)
SumChangesAt(lcs, S) ==
    IF S = {} THEN 0
    ELSE LET k == CHOOSE x \in S : TRUE
         IN  lcs[k].price_changes + SumChangesAt(lcs, S \ {k})

\* C21: price_change_frequency returns 0 for an empty collection of records,
\* and otherwise the sum of price_changes over the records divided by their
\* number, rounded to 2 decimal places; the result is never NaN and never
\* negative.
C21_ChangeFrequencyRounded ==
    Done("price_change_frequency") =>
        /\ ret.value.den > 0
        /\ ret.value.num >= 0
        /\ call.arg = <<>> => ret.value.num = 0
        /\ call.arg # <<>> =>
               /\ ret.value.den = 100
               /\ RoundsTo(Frac(SumChangesAt(call.arg, DOMAIN call.arg), Len(call.arg)),
                           ret.value.num)

\* Two changes over three records: 0.67.
C21_Witness ==
    /\ Done("price_change_frequency")
    /\ Len(call.arg) = 3
    /\ SumChangesAt(call.arg, DOMAIN call.arg) = 2
    /\ ret.value = Frac(67, 100)

\* The final price of identity id in the batch s: the price of its last
\* observation.
FinalPrice(s, id) ==
    s[CHOOSE k \in DOMAIN s : s[k].id = id /\ \A j \in DOMAIN s : s[j].id = id => j <= k].price

FinalPrices(s) == {FinalPrice(s, id) : id \in IdsOf(s)}

\* C30: the RSI that analyze_offers reports is computed over the lifecycle
\* prices sorted ascending, so it takes only degenerate values: 0 when the
\* batch has fewer than 2 distinct identities, 50 when all final prices are
\* equal, and otherwise 100 - 100/(1 + (max price - min price)/1e-6).
C30_ReportedRsiIsDegenerate ==
    Done("analyze_offers") =>
        LET ids == IdsOf(call.arg)
            P == FinalPrices(call.arg)
        IN  IF Cardinality(ids) < 2 THEN RsiIs(ret.value.rsi, 0)
            ELSE IF Cardinality(P) = 1 THEN RsiIs(ret.value.rsi, 50)
            ELSE \E lo, hi \in P :
                    /\ \A p \in P : lo <= p /\ p <= hi
                    /\ ret.value.rsi.hundred_minus.num = 100
                    /\ ret.value.rsi.hundred_minus.den = 1 + (hi - lo) * 1000000

\* Two identities whose final prices are 40 and 100.
C30_Witness ==
    /\ Done("analyze_offers")
    /\ FinalPrices(call.arg) = {40, 100}
    /\ ret.value.rsi = HundredMinus(Frac(100, 60000001))

\* The deal notifications sent so far for listing id.
DealsSentFor(id) == {e \in events : e.ev = "deal" /\ e.id = id}

ListingIds == {"X", "Y", "Z"}

\* C22: over any sequence of processing cycles, concurrent process_model
\* tasks of different products included, a deal notification for a given
\* listing id is sent at most once.
C22_DealNotifiedAtMostOnce ==
    \A id \in ListingIds : Cardinality(DealsSentFor(id)) <= 1

(***************************************************************************)
(* Claims about the notified record (checked under SpecCycle)              *)
(***************************************************************************)
\* The offer the deal loop of task p is at.
DealAt(p) == good_offers[p][loop_i[p]]

\* Task p takes the step.
StepOf(p) == pc'[p] # pc[p] \/ loop_i'[p] # loop_i[p]

\* Every entry of the notified record carries the time of a send that
\* succeeded, and a task is about to write one only after its own send did.
MarkedAfterSend ==
    /\ \A id \in DOMAIN db_notified :
           \E e \in events : e.id = id /\ e.ev \in {"cheapest", "deal"}
    /\ \A p \in Tasks :
           /\ pc[p] = "deal_mark" => Event("deal", p, DealAt(p).id) \in events
           /\ pc[p] = "cheapest_mark" => Event("cheapest", p, cheapest[p].id) \in events

\* The send of task p fails in this step.
SendFails(p) ==
    /\ pc[p] \in {"deal_send", "cheapest_send"}
    /\ StepOf(p)
    /\ faults' # faults

\* The deal loop of task p asks, without an error, for an id that has no entry.
ChecksUnnotified(p) ==
    /\ pc[p] = "deal_check"
    /\ ~is_notified(db_notified, DealAt(p).id)
    /\ StepOf(p)
    /\ faults' = faults

\* C23: process_model writes a listing id to the notified record only after
\* the notification for it was sent successfully; a send that fails leaves the
\* record unchanged, and a deal whose id has no entry is sent again when the
\* deal loop of a later cycle reaches it.
C23_MarkOnlyAfterSend ==
    /\ []MarkedAfterSend
    /\ [][\A p \in Tasks :
            /\ SendFails(p) => db_notified' = db_notified
            /\ ChecksUnnotified(p) => pc'[p] = "deal_send"]_vars

\* The send of a deal failed in the first cycle, its id got no entry, and the
\* deal loop of the second cycle has sent it.
C23_Witness ==
    \E p \in Tasks : \E id \in ListingIds :
        /\ cycle = 2
        /\ [ev |-> "deal_send_failed", task |-> p, cycle |-> 1, id |-> id] \in events
        /\ [ev |-> "deal", task |-> p, cycle |-> 2, id |-> id] \in events
        /\ \A e \in events : (e.id = id /\ e.cycle = 1) => e.ev \notin {"cheapest", "deal"}

\* The notifications sent for the listing id.
SentFor(id) == {e \in events : e.id = id /\ e.ev \in {"cheapest", "deal"}}

\* The cheapest path has announced the listing and its entry is a day old at most.
CheapestMarkedWithinDay(id) ==
    /\ \E e \in events : e.ev = "cheapest" /\ e.id = id
    /\ id \in DOMAIN db_notified
    /\ ~(now - db_notified[id] > DAY)

\* The cheapest path of task p gets an error from should_notify in this step.
CheapestCheckFails(p) ==
    /\ pc[p] = "cheapest_check"
    /\ StepOf(p)
    /\ faults' # faults

\* C24: the cheapest path asks to send only for an id that has no entry or one
\* older than 24 hours; an id it has announced and marked is announced by no
\* path again within 24 hours; an error of should_notify suppresses the send.
C24_CheapestOncePerDay ==
    [][/\ \A p \in Tasks :
            /\ (pc[p] = "cheapest_check" /\ pc'[p] = "cheapest_send") =>
                   (cheapest[p].id \in DOMAIN db_notified =>
                        now - db_notified[cheapest[p].id] > DAY)
            /\ CheapestCheckFails(p) => pc'[p] # "cheapest_send"
       /\ \A id \in ListingIds :
            CheapestMarkedWithinDay(id) => SentFor(id)' = SentFor(id)]_vars

(***************************************************************************)
(* Claims about the stored offers (checked under SpecCycle)                *)
(***************************************************************************)
\* The scraper or the parser has returned an error to task p in this cycle.
FetchFailed(p) == Event("fetch_failed", p, AppModels[p].query) \in events

\* Task p has been through its cycle with every call succeeding.
ProcessedNormally(p) ==
    /\ pc[p] = "done"
    /\ offers[p] = normalize_all(parse_filtered(site, AppModels[p], now), AppModels)
    /\ IdsOf(offers[p]) \subseteq DOMAIN db_offers
    /\ PositiveIdx(offers[p]) # {} => \E e \in EventsOf(p) : e.ev = "update_stats"

\* C28: when the scraper or the parser returns an error for a product, its
\* process_model ends at once: it saves and deletes no offer, writes no stats
\* and sends no notification in that cycle, and the other products of the
\* cycle are processed as they are without the error.
C28_FetchErrorEndsProductOnly ==
    /\ [](\A p \in Tasks :
            FetchFailed(p) =>
                /\ pc[p] = "done"
                /\ offers[p] = <<>> /\ stats[p] = NoStats /\ good_offers[p] = <<>>
                /\ EventsOf(p) = {}
                /\ (phase = "select" /\ site # <<>> /\ faults = 1) =>
                       \A q \in Tasks \ {p} : ProcessedNormally(q))
    /\ [][\A p \in Tasks :
            (FetchFailed(p)' /\ cycle' = cycle) =>
                (dbVars' # dbVars => \E q \in Tasks \ {p} : StepOf(q))]_vars

\* A request of the first product failed while the second one stored its
\* offers and announced one of them.
C28_Witness ==
    /\ phase = "select"
    /\ site # <<>>
    /\ FetchFailed(1)
    /\ ProcessedNormally(2)
    /\ \E e \in EventsOf(2) : e.ev \in {"cheapest", "deal"}

\* The ids some listing of the site carries in this cycle.
IdsOnSite == {site[k].id : k \in DOMAIN site}

\* An earlier cycle of task p has stored the offer.
StoredEarlierBy(p, id) ==
    \E e \in events : e.ev = "save_offer" /\ e.task = p /\ e.id = id /\ e.cycle < cycle

\* Task p has ended its cycle, the scraper and the parser having returned Ok.
Completed(p) == cycle >= 1 /\ pc[p] = "done" /\ ~FetchFailed(p)

\* C27: once process_model has completed a cycle of a product without a scrape
\* or parse error, the offers an earlier cycle of that product stored and
\* this cycle did not observe are deleted, the observed ones are stored, and
\* its save and delete steps leave the rows of other products as they were.
C27_StorageFollowsObservation ==
    /\ [](\A p \in Tasks :
            Completed(p) =>
                /\ \A id \in ListingIds :
                       (StoredEarlierBy(p, id) /\ id \notin IdsOnSite) =>
                           id \notin DOMAIN db_offers
                /\ IdsOf(offers[p]) \subseteq DOMAIN db_offers)
    /\ [][\A p \in Tasks :
            (StepOf(p) /\ pc[p] \in {"save", "delete"}) =>
                \A id \in DOMAIN db_offers :
                    (~StoredEarlierBy(p, id) /\ id \notin IdsOf(offers[p])) =>
                        (id \in DOMAIN db_offers' /\ db_offers'[id] = db_offers[id])]_vars

(***************************************************************************)
(* Claims about the command listener and the refresh signal (checked       *)
(* under SpecBot and SpecBotFair)                                          *)
(***************************************************************************)
\* The updates the loop of the listener has gone through.
Handled == {handled[k] : k \in DOMAIN handled}

\* The offset never decreases and no update is handled twice.
OffsetAdvances ==
    /\ [][offset' >= offset]_vars
    /\ [](\A i, j \in DOMAIN handled : i # j => handled[i] # handled[j])

\* The updates the offset of the next poll makes Telegram forget unhandled.
Skipped == {u \in DOMAIN texts : u < offset + 1 /\ u \notin Handled}

\* C25: across the polls of the listener the stored offset never decreases,
\* no update is handled twice, and the offset sent in the next poll skips no
\* update that has not been handled.
C25_EveryUpdateHandledOnce ==
    /\ OffsetAdvances
    /\ [](lpc = "poll" => Skipped = {})

\* A /refresh is handled in this step.
RefreshHandled == heard' = heard + 1

\* The main loop has a notification to take: it need not wait for the timer.
Notified == notify = "NOTIFIED" \/ waiter = "notified"

\* The main loop takes a step.
MainSteps == phase' # phase \/ began' # began \/ heard' < heard

Pages(n) == [k \in 1..n |-> k]

\* The page just answered has no list items, or its first ad id is that of
\* the page before it.
StoppingPage ==
    \/ response.items = 0
    \/ \E id \in {"A", "B"} :
          response.first_ad_id = Some(id) /\ last_first_ad_id = Some(id)

\* The answer to the request of the page is dealt with in this step.
Answered == response # None /\ fetch_ret = None /\ (fetch_ret' # None \/ page' # page)

====
